---- MODULE Spec2Model ----
(***************************************************************************)
(* State-machine model of the parametric modelling kernel of               *)
(* cm2-text-to-cad: the Parametric Intention Graph (pig_models.py), the    *)
(* PIG Manager (pig_manager.py), the Edit Manager (edit_manager.py), the   *)
(* Dialog Manager (dialog_manager.py) and the Orchestrator's turn state    *)
(* machine (orchestrator.py).                                              *)
(*                                                                         *)
(* The event loop is single-threaded and cooperative: a coroutine runs     *)
(* without interruption until it awaits real I/O.  The only such points    *)
(* are the LLM call and the wait for the executor subprocess, so every     *)
(* action below is one run of a handler between two of those points.       *)
(***************************************************************************)
EXTENDS Integers, Sequences, FiniteSets, TLC

VARIABLES
    graphs,           \* PIGManager.graphs: session id -> ParametricIntentionGraph
    version_history,  \* PIGManager.version_history: session id -> list of entries
    sessions,         \* DialogManager.sessions: session id -> list of messages
    model_states,     \* DialogManager.model_states: session id -> geometry_data
    session_codes,    \* CentralOrchestrator._session_codes: session id -> script
    is_processing,    \* CentralOrchestrator.is_processing
    current_session_id, \* CentralOrchestrator.current_session_id
    calls,            \* process_user_input coroutines that are suspended at an await
    nextId,           \* the next fresh node identifier (uuid4)
    clock,            \* the next checkpoint stamp (datetime.now())
    nextCall,         \* number of process_user_input calls made so far
    ret               \* what the most recent handler returned to its caller

vars == <<graphs, version_history, sessions, model_states, session_codes, is_processing,
          current_session_id, calls, nextId, clock, nextCall, ret>>

----------------------------------------------------------------------------
(* Bounds of the model.                                                    *)

\* node identifiers handed out in one behaviour
MaxIds == 3
\* entries a session's version history may reach before the model stops appending
MaxHistory == 2
\* process_user_input calls made in one behaviour
MaxCalls == 2
\* messages a conversation may hold when a handler that appends one starts
MaxMessages == 3
\* entries the long-log specification lets a version history reach: one more
\* than the history is said to hold
MaxLog == 101
\* loads of a saved generation in one behaviour of the long-log specification
MaxLoads == 1

----------------------------------------------------------------------------
(* Values.  A Python value is modelled by its runtime kind and a number.   *)

None == [k |-> "none", n |-> 0, s |-> ""]
IntV(n) == [k |-> "int", n |-> n, s |-> ""]
BoolV(n) == [k |-> "bool", n |-> n, s |-> ""]
StrV(s) == [k |-> "str", n |-> 0, s |-> s]

\* isinstance(v, (int, float)): bool is a subclass of int in Python
IsNumber(v) == v.k \in {"int", "bool"}
IsBool(v) == v.k = "bool"
IsStr(v) == v.k = "str"

\* str.lower() on the parameter names the model uses
Lower(name) == IF name = "Height" THEN "height" ELSE name

\* a reference held in OperationNode.inputs: a node id or a parameter name
IdRef(id) == [id |-> id, name |-> ""]
NameRef(name) == [id |-> 0, name |-> name]

NoId == 0

\* CadQuery source text: a template (or a whole script) and the values spliced
\* into it by str.format
Code(tpl, args) == [tpl |-> tpl, args |-> args]
NoCode == Code("", <<>>)

----------------------------------------------------------------------------
(* pig_models.py: nodes and the graph.                                     *)

ParameterNode(id, name, value, ptype, minv, maxv, units) ==
    [id |-> id, name |-> name, node_type |-> "parameter", value |-> value,
     parameter_type |-> ptype, min_value |-> minv, max_value |-> maxv,
     units |-> units, operation_type |-> "", cadquery_code |-> NoCode,
     inputs |-> <<>>, dependencies |-> {}, dependents |-> {}]

OperationNode(id, name, optype, code, inputs) ==
    [id |-> id, name |-> name, node_type |-> "operation", value |-> None,
     parameter_type |-> "", min_value |-> None, max_value |-> None,
     units |-> "", operation_type |-> optype, cadquery_code |-> code,
     inputs |-> inputs, dependencies |-> {}, dependents |-> {}]

\* ParametricIntentionGraph(): nodes is a dict (insertion ordered), kept as a
\* sequence of nodes in insertion order
EmptyGraph == [nodes |-> <<>>, execution_order |-> <<>>, root_nodes |-> {}]

NodeIds(pig) == {pig.nodes[i].id : i \in DOMAIN pig.nodes}
IndexOf(pig, id) == CHOOSE i \in DOMAIN pig.nodes : pig.nodes[i].id = id
NodeOf(pig, id) == pig.nodes[IndexOf(pig, id)]

\* a set of identifiers as a sequence, smallest first
RECURSIVE SetToSeq(_)
SetToSeq(S) ==
    IF S = {} THEN <<>>
    ELSE LET m == CHOOSE x \in S : \A y \in S : x <= y
         IN <<m>> \o SetToSeq(S \ {m})

add_node(pig, node) ==
    [pig EXCEPT !.nodes = Append(@, node),
                !.root_nodes = IF node.dependencies = {} THEN @ \cup {node.id} ELSE @]

\* add_dependency with the edge recorded in both directions: a faulty variant
\* the acyclicity invariant has to catch
add_dependency_both_ways(pig, dependent_id, dependency_id) ==
    IF dependent_id \in NodeIds(pig) /\ dependency_id \in NodeIds(pig)
    THEN LET i == IndexOf(pig, dependent_id)
             j == IndexOf(pig, dependency_id)
         IN [pig EXCEPT !.nodes[i].dependencies = @ \cup {dependency_id},
                        !.nodes[i].dependents = @ \cup {dependency_id},
                        !.nodes[j].dependents = @ \cup {dependent_id},
                        !.nodes[j].dependencies = @ \cup {dependent_id},
                        !.root_nodes = @ \ {dependent_id, dependency_id}]
    ELSE pig

\* add_dependency without the removal from root_nodes: a faulty variant the
\* root-set invariant has to catch
add_dependency_keeps_root(pig, dependent_id, dependency_id) ==
    IF dependent_id \in NodeIds(pig) /\ dependency_id \in NodeIds(pig)
    THEN LET i == IndexOf(pig, dependent_id)
             j == IndexOf(pig, dependency_id)
         IN [pig EXCEPT !.nodes[i].dependencies = @ \cup {dependency_id},
                        !.nodes[j].dependents = @ \cup {dependent_id}]
    ELSE pig

add_dependency(pig, dependent_id, dependency_id) ==
    IF dependent_id \in NodeIds(pig) /\ dependency_id \in NodeIds(pig)
    THEN LET i == IndexOf(pig, dependent_id)
             p1 == [pig EXCEPT !.nodes[i].dependencies = @ \cup {dependency_id}]
             j == IndexOf(p1, dependency_id)
             p2 == [p1 EXCEPT !.nodes[j].dependents = @ \cup {dependent_id}]
         IN [p2 EXCEPT !.root_nodes =
                 IF dependent_id \in @ /\ p2.nodes[i].dependencies # {}
                 THEN @ \ {dependent_id} ELSE @]
    ELSE pig

\* get_execution_order: depth-first visit of every node, dependencies first.
\* st = [visited, order, err]; err is the ValueError of a circular dependency
\* (or the KeyError of a dependency that is no node).  A dependency set is
\* iterated smallest id first; on every graph the managers build each
\* dependency is inserted before its dependent (DepsInsertedFirst), so the
\* outer loop has visited it already and the iteration order is immaterial.
RECURSIVE visit(_, _, _, _)
RECURSIVE visit_all(_, _, _, _)
visit(pig, node_id, temp_visited, st) ==
    IF st.err THEN st
    ELSE IF node_id \in temp_visited \/ node_id \notin NodeIds(pig)
    THEN [st EXCEPT !.err = TRUE]
    ELSE IF node_id \in st.visited THEN st
    ELSE LET s2 == visit_all(pig, SetToSeq(NodeOf(pig, node_id).dependencies),
                             temp_visited \cup {node_id}, st)
         IN IF s2.err THEN s2
            ELSE [visited |-> s2.visited \cup {node_id},
                  order |-> Append(s2.order, node_id), err |-> FALSE]
visit_all(pig, ids, temp_visited, st) ==
    IF ids = <<>> THEN st
    ELSE visit_all(pig, Tail(ids), temp_visited, visit(pig, Head(ids), temp_visited, st))

\* the order computed and whether the computation raised
execution_order_result(pig) ==
    visit_all(pig, [i \in DOMAIN pig.nodes |-> pig.nodes[i].id], {},
              [visited |-> {}, order |-> <<>>, err |-> FALSE])

\* pig.get_execution_order(): stores the order in the graph (when it does not raise)
get_execution_order(pig) ==
    LET r == execution_order_result(pig)
    IN IF r.err THEN pig ELSE [pig EXCEPT !.execution_order = r.order]

\* the direct dependents only: a faulty variant of collect_affected the
\* closure property has to catch
collect_affected_direct(pig, to_visit, affected) ==
    NodeOf(pig, to_visit[1]).dependents

\* the dependents closure of update_parameter: a stack of nodes to visit
RECURSIVE collect_affected(_, _, _)
collect_affected(pig, to_visit, affected) ==
    IF to_visit = <<>> THEN affected
    ELSE LET current == to_visit[Len(to_visit)]
             rest == SubSeq(to_visit, 1, Len(to_visit) - 1)
             fresh == NodeOf(pig, current).dependents \ affected
         IN collect_affected(pig, rest \o SetToSeq(fresh), affected \cup fresh)

SelectIn(seq, S) == SelectSeq(seq, LAMBDA x : x \in S)

\* ParametricIntentionGraph.update_parameter: [ok, pig, affected]
update_parameter(pig, node_id, new_value) ==
    IF node_id \notin NodeIds(pig)
    THEN [ok |-> FALSE, pig |-> pig, affected |-> <<>>]
    ELSE LET p1 == [pig EXCEPT !.nodes[IndexOf(pig, node_id)].value = new_value]
             affected_nodes == collect_affected(p1, <<node_id>>, {})
             r == execution_order_result(p1)
         IN IF r.err
            THEN [ok |-> FALSE, pig |-> p1, affected |-> <<>>]
            ELSE [ok |-> TRUE, pig |-> get_execution_order(p1),
                  affected |-> SelectIn(r.order, affected_nodes)]

\* a lookup that finds nothing: a faulty variant of find_parameter_by_name
find_no_parameter(pig, name) == NoId

\* find_parameter_by_name: the first parameter node whose lower-cased name matches
find_parameter_by_name(pig, name) ==
    LET hits == {i \in DOMAIN pig.nodes :
                    /\ Lower(pig.nodes[i].name) = Lower(name)
                    /\ pig.nodes[i].node_type = "parameter"}
    IN IF hits = {} THEN NoId
       ELSE pig.nodes[CHOOSE i \in hits : \A j \in hits : i <= j].id

----------------------------------------------------------------------------
(* pig_manager.py.  The manager's own state is passed around as a record   *)
(* m = [g, vh, id, clock]: graphs, version_history, the next uuid and the  *)
(* next checkpoint stamp.                                                  *)

Override(f, key, val) == (key :> val) @@ f

initialize_empty_graph(m, s) ==
    [m EXCEPT !.g = Override(m.g, s, EmptyGraph), !.vh = Override(m.vh, s, <<>>)]

\* get_graph: a session without a graph gets an empty one
get_graph(m, s) == IF s \in DOMAIN m.g THEN m ELSE initialize_empty_graph(m, s)

\* ParameterType inferred from the runtime kind of the value; the test for
\* int/float comes first, and a Python bool passes it
parameter_type_of_value(value) ==
    IF IsNumber(value) THEN "numeric"
    ELSE IF IsBool(value) THEN "boolean"
    ELSE "string"

\* _add_parameter_to_pig on graph m.g[s]: rebinds an existing name, else adds a node
add_parameter_to_pig(m, s, name, value) ==
    LET pig == m.g[s]
        existing_id == find_parameter_by_name(pig, name)
    IN IF existing_id # NoId
       THEN [m EXCEPT !.g[s].nodes[IndexOf(pig, existing_id)].value = value]
       ELSE [m EXCEPT !.g[s] = add_node(pig, ParameterNode(m.id, name, value,
                                     parameter_type_of_value(value), None, None, "")),
                      !.id = m.id + 1]

RECURSIVE add_parameters_to_pig(_, _, _)
add_parameters_to_pig(m, s, params) ==
    IF params = <<>> THEN m
    ELSE add_parameters_to_pig(add_parameter_to_pig(m, s, params[1].name, params[1].value),
                               s, Tail(params))

ParamNames(params) == {params[i].name : i \in DOMAIN params}

\* _generate_cadquery_code_for_node: the template of the operation with the
\* node's parameters spliced in, or an error comment
templates == {"box", "cylinder", "sphere", "extrude", "cut", "fillet"}
generate_cadquery_code_for_node(ast_node) ==
    IF ast_node.operation \in templates
    THEN Code(ast_node.operation, [i \in DOMAIN ast_node.parameters |-> ast_node.parameters[i].value])
    ELSE Code("# ERRO: Template", <<>>)

\* _extract_parameter_references: local name -> parameter name, for the string
\* values that are keys of the plan's new_parameters
extract_parameter_references(ast_node, parameters) ==
    LET refs == SelectSeq(ast_node.parameters,
                    LAMBDA p : IsStr(p.value) /\ p.value.s \in ParamNames(parameters))
    IN [i \in DOMAIN refs |-> [key |-> refs[i].key, ref |-> NameRef(refs[i].value.s)]]

\* the dependency loop of _add_ast_node_to_pig
RECURSIVE add_ast_dependencies(_, _, _, _)
add_ast_dependencies(pig, node_id, values, parameters) ==
    IF values = <<>> THEN pig
    ELSE LET v == values[1].value
             param_id == IF IsStr(v) /\ v.s \in ParamNames(parameters)
                         THEN find_parameter_by_name(pig, v.s) ELSE NoId
             p1 == IF param_id # NoId THEN add_dependency(pig, node_id, param_id) ELSE pig
         IN add_ast_dependencies(p1, node_id, Tail(values), parameters)

add_ast_node_to_pig(m, s, ast_node, parameters) ==
    IF ast_node.node_type \in {"primitive", "operation"}
    THEN LET node == OperationNode(m.id, ast_node.operation, ast_node.operation,
                         generate_cadquery_code_for_node(ast_node),
                         extract_parameter_references(ast_node, parameters))
             p1 == add_node(m.g[s], node)
         IN [m EXCEPT !.g[s] = add_ast_dependencies(p1, m.id, ast_node.parameters, parameters),
                      !.id = m.id + 1]
    ELSE m

RECURSIVE add_ast_nodes_to_pig(_, _, _, _)
add_ast_nodes_to_pig(m, s, ast_nodes, parameters) ==
    IF ast_nodes = <<>> THEN m
    ELSE add_ast_nodes_to_pig(add_ast_node_to_pig(m, s, ast_nodes[1], parameters),
                              s, Tail(ast_nodes), parameters)

\* update_from_execution_plan(session_id, plan, result): the result is not read
update_from_execution_plan(m, s, plan, result) ==
    LET m0 == get_graph(m, s)
        m1 == add_parameters_to_pig(m0, s, plan.new_parameters)
        m2 == add_ast_nodes_to_pig(m1, s, plan.ast_nodes, plan.new_parameters)
    IN [m2 EXCEPT !.g[s] = get_execution_order(@)]

\* identifiers the absorption of a plan can consume
PlanIds(plan) == Len(plan.new_parameters) + Len(plan.ast_nodes)

\* PIGManager.add_parameter: always a new node; the order is not recomputed
add_parameter(m, s, name, value, ptype, units, minv, maxv) ==
    LET m0 == get_graph(m, s)
    IN [m0 EXCEPT !.g[s] = add_node(@, ParameterNode(m0.id, name, value, ptype, minv, maxv, units)),
                  !.id = m0.id + 1]

RECURSIVE add_input_dependencies(_, _, _)
add_input_dependencies(pig, node_id, inputs) ==
    IF inputs = <<>> THEN pig
    ELSE add_input_dependencies(
             IF inputs[1].ref.id \in NodeIds(pig)
             THEN add_dependency(pig, node_id, inputs[1].ref.id) ELSE pig,
             node_id, Tail(inputs))

\* PIGManager.add_operation: a new node, with an edge to every input that is a node id
add_operation(m, s, name, optype, code, inputs) ==
    LET m0 == get_graph(m, s)
        p1 == add_node(m0.g[s], OperationNode(m0.id, name, optype, code, inputs))
    IN [m0 EXCEPT !.g[s] = add_input_dependencies(p1, m0.id, inputs),
                  !.id = m0.id + 1]

\* an update that writes through to the parameters recorded in the
\* session's history, as if they were shared with the graph: a faulty
\* variant of update_parameter_value
update_parameter_value_shared(m, s, parameter_name, new_value) ==
    LET m0 == get_graph(m, s)
        param_id == find_parameter_by_name(m0.g[s], parameter_name)
        r == update_parameter(m0.g[s], param_id, new_value)
        written(params) ==
            [i \in DOMAIN params |->
                IF params[i].name = parameter_name
                THEN [params[i] EXCEPT !.value = new_value] ELSE params[i]]
        vh1 == IF s \in DOMAIN m0.vh
               THEN [m0.vh EXCEPT ![s] =
                        [i \in DOMAIN @ |->
                            IF @[i].type = "checkpoint"
                            THEN [@[i] EXCEPT !.data.parameters = written(@)] ELSE @[i]]]
               ELSE m0.vh
    IN IF param_id = NoId
       THEN [m |-> m0, ok |-> FALSE, err |-> "ParameterNotFound", affected |-> <<>>]
       ELSE [m |-> [m0 EXCEPT !.g[s] = r.pig, !.vh = vh1], ok |-> r.ok,
             err |-> IF r.ok THEN "" ELSE "CycleDetected", affected |-> r.affected]

\* PIGManager.update_parameter_value: [m, ok, err, affected]; no validation
update_parameter_value(m, s, parameter_name, new_value) ==
    LET m0 == get_graph(m, s)
        param_id == find_parameter_by_name(m0.g[s], parameter_name)
        r == update_parameter(m0.g[s], param_id, new_value)
    IN IF param_id = NoId
       THEN [m |-> m0, ok |-> FALSE, err |-> "ParameterNotFound", affected |-> <<>>]
       ELSE [m |-> [m0 EXCEPT !.g[s] = r.pig], ok |-> r.ok,
             err |-> IF r.ok THEN "" ELSE "CycleDetected", affected |-> r.affected]

\* _extract_parameters: a dict keyed by node.name; a later node of the same
\* name overwrites the entry and keeps its place
put_parameter(dict, item) ==
    IF \E i \in DOMAIN dict : dict[i].name = item.name
    THEN [i \in DOMAIN dict |-> IF dict[i].name = item.name THEN item ELSE dict[i]]
    ELSE Append(dict, item)
RECURSIVE extract_parameters_from(_, _)
extract_parameters_from(nodes, dict) ==
    IF nodes = <<>> THEN dict
    ELSE extract_parameters_from(Tail(nodes),
             IF nodes[1].node_type = "parameter"
             THEN put_parameter(dict, [name |-> nodes[1].name, id |-> nodes[1].id,
                                       value |-> nodes[1].value,
                                       type |-> nodes[1].parameter_type,
                                       units |-> nodes[1].units])
             ELSE dict)
extract_parameters(pig) == extract_parameters_from(pig.nodes, <<>>)

\* _extract_operations: the operations in execution order (the call to
\* get_execution_order also stores the order: see get_graph_state)
extract_operations(pig) ==
    LET order == execution_order_result(pig).order
        ops == SelectSeq(order, LAMBDA id : NodeOf(pig, id).node_type = "operation")
    IN [i \in DOMAIN ops |->
           LET node == NodeOf(pig, ops[i])
           IN [id |-> node.id, name |-> node.name, type |-> node.operation_type,
               inputs |-> node.inputs, code |-> node.cadquery_code]]

\* get_graph_state: [m, state].  "execution_order" is read before
\* _extract_operations recomputes it; the recomputation stays in the graph
get_graph_state(m, s) ==
    LET m0 == get_graph(m, s)
        pig == m0.g[s]
    IN [m |-> [m0 EXCEPT !.g[s] = get_execution_order(pig)],
        state |-> [nodes |-> pig.nodes, execution_order |-> pig.execution_order,
                   root_nodes |-> pig.root_nodes,
                   parameters |-> extract_parameters(pig),
                   operations |-> extract_operations(pig)]]

\* an entry of the version history
Entry(type, data) == [type |-> type, data |-> data]

\* create_version_checkpoint: [m, checkpoint_id]; appends without trimming
create_version_checkpoint(m, s) ==
    LET gs == get_graph_state(m, s)
        pig == gs.m.g[s]
        data == [checkpoint_id |-> m.clock, pig_state |-> gs.state,
                 parameters |-> extract_parameters(pig),
                 operations |-> extract_operations(pig)]
    IN [m |-> [gs.m EXCEPT !.vh[s] = Append(@, Entry("checkpoint", data)),
                           !.clock = m.clock + 1],
        checkpoint_id |-> m.clock]

\* the version history keeps the last 100 entries
HistoryCap == 100

LastN(seq, n) == IF Len(seq) > n THEN SubSeq(seq, Len(seq) - n + 1, Len(seq)) ELSE seq

\* the new entry put in front of the others: a faulty variant of
\* _add_version_to_history
add_version_in_front(m, s, action_type, data) ==
    LET vh0 == IF s \in DOMAIN m.vh THEN m.vh ELSE Override(m.vh, s, <<>>)
    IN [m EXCEPT !.vh = [vh0 EXCEPT ![s] = LastN(<<Entry(action_type, data)>> \o @, HistoryCap)]]

\* _add_version_to_history
add_version_to_history(m, s, action_type, data) ==
    LET vh0 == IF s \in DOMAIN m.vh THEN m.vh ELSE Override(m.vh, s, <<>>)
    IN [m EXCEPT !.vh = [vh0 EXCEPT ![s] = LastN(Append(@, Entry(action_type, data)), HistoryCap)]]

\* the type string of a checkpointed parameter back to a ParameterType
restore_parameter_type(type_str) ==
    IF type_str \in {"boolean", "string", "vector"} THEN type_str ELSE "numeric"

RECURSIVE restore_parameters(_, _, _)
restore_parameters(m, s, params) ==
    IF params = <<>> THEN m
    ELSE restore_parameters(
             add_parameter(m, s, params[1].name, params[1].value,
                           restore_parameter_type(params[1].type), "", None, None),
             s, Tail(params))

RECURSIVE restore_operations(_, _, _)
restore_operations(m, s, ops) ==
    IF ops = <<>> THEN m
    ELSE restore_operations(
             add_operation(m, s, ops[1].name, ops[1].type, ops[1].code, ops[1].inputs),
             s, Tail(ops))

\* _restore_pig_from_checkpoint: a new graph, then add_parameter and
\* add_operation for what the checkpoint recorded
restore_pig_from_checkpoint(m, s, checkpoint_data) ==
    LET m0 == [m EXCEPT !.g = Override(m.g, s, EmptyGraph)]
        m1 == restore_parameters(m0, s, checkpoint_data.parameters)
    IN restore_operations(m1, s, checkpoint_data.operations)

\* the first checkpoint entry of the session with this id, or 0
find_checkpoint(m, s, checkpoint_id) ==
    LET hits == {i \in DOMAIN m.vh[s] :
                    /\ m.vh[s][i].type = "checkpoint"
                    /\ m.vh[s][i].data.checkpoint_id = checkpoint_id}
    IN IF hits = {} THEN 0 ELSE CHOOSE i \in hits : \A j \in hits : i <= j

\* rollback_to_version: [m, success]
rollback_to_version(m, s, checkpoint_id) ==
    IF s \notin DOMAIN m.vh \/ find_checkpoint(m, s, checkpoint_id) = 0
    THEN [m |-> m, success |-> FALSE]
    ELSE LET checkpoint == m.vh[s][find_checkpoint(m, s, checkpoint_id)].data
             backup == create_version_checkpoint(m, s)
         IN [m |-> restore_pig_from_checkpoint(backup.m, s, checkpoint), success |-> TRUE]

\* _validate_parameter_value: [m, is_valid, error]
validate_parameter_value(m, s, param_name, new_value) ==
    LET m0 == get_graph(m, s)
        param_id == find_parameter_by_name(m0.g[s], param_name)
        node == NodeOf(m0.g[s], param_id)
        error ==
            IF param_id = NoId THEN "ParameterNotFound"
            ELSE IF node.parameter_type = "numeric"
            THEN IF ~IsNumber(new_value) THEN "TypeMismatch"
                 ELSE IF node.min_value # None /\ new_value.n < node.min_value.n THEN "OutOfBounds"
                 ELSE IF node.max_value # None /\ new_value.n > node.max_value.n THEN "OutOfBounds"
                 ELSE ""
            ELSE IF node.parameter_type = "boolean"
            THEN IF ~IsBool(new_value) THEN "TypeMismatch" ELSE ""
            ELSE IF node.parameter_type = "string"
            THEN IF ~IsStr(new_value) THEN "TypeMismatch" ELSE ""
            ELSE ""
    IN [m |-> m0, is_valid |-> error = "", error |-> error]

\* a pass that applies the update whatever the validation says: a faulty
\* variant of the loop of enhanced_parameter_update
update_one_unchecked(m, s, u) ==
    LET r == update_parameter_value(m, s, u.name, u.value)
    IN [m |-> r.m, res |-> [name |-> u.name, success |-> r.ok, error |-> r.err]]

\* one pass of the loop of enhanced_parameter_update: [m, res]
update_one(m, s, u) ==
    LET v == validate_parameter_value(m, s, u.name, u.value)
        r == update_parameter_value(v.m, s, u.name, u.value)
    IN IF ~v.is_valid
       THEN [m |-> v.m, res |-> [name |-> u.name, success |-> FALSE, error |-> v.error]]
       ELSE [m |-> r.m, res |-> [name |-> u.name, success |-> r.ok, error |-> r.err]]

\* the loop of enhanced_parameter_update: acc = [m, results].  Each pass is
\* bound through a one-element set, so that it is computed once
RECURSIVE apply_updates(_, _, _)
apply_updates(acc, s, updates) ==
    IF updates = <<>> THEN acc
    ELSE CHOOSE next \in
             {apply_updates([m |-> one.m, results |-> Append(acc.results, one.res)],
                            s, Tail(updates)) :
                 one \in {update_one(acc.m, s, updates[1])}} : TRUE

\* the tail of enhanced_parameter_update, after the checkpoint cp and the
\* loop: the history entry and the answer, which says success whatever the
\* results and lists every key of parameter_updates
finish_update(cp, done, s, parameter_updates) ==
    [m |-> add_version_to_history(done.m, s, "parameter_update",
               [parameter_updates |-> parameter_updates,
                update_results |-> done.results,
                checkpoint_before |-> cp.checkpoint_id]),
     success |-> TRUE,
     updated_parameters |-> [i \in DOMAIN parameter_updates |-> parameter_updates[i].name],
     update_results |-> done.results]

\* enhanced_parameter_update: [m, success, updated_parameters, update_results];
\* the checkpoint and the loop are bound through one-element sets
enhanced_parameter_update(m, s, parameter_updates) ==
    CHOOSE out \in
        UNION {{finish_update(cp, done, s, parameter_updates) :
                   done \in {apply_updates([m |-> cp.m, results |-> <<>>], s,
                                           parameter_updates)}} :
               cp \in {create_version_checkpoint(get_graph(m, s), s)}} : TRUE

----------------------------------------------------------------------------
(* Direct code editing and loading (pig_manager.py).  A script is known to *)
(* the model by its text; what the validation and the identifier scan read *)
(* off the text is tabulated for the scripts the model submits.            *)

ScriptExtrude == Code("result = result.extrude(height)", <<>>)
ScriptEmpty == Code("", <<>>)
ScriptNoImport == Code("result = cq.Workplane('XY').sphere(radius)", <<>>)

\* code.strip() is empty
IsBlank(code) == code.tpl = ""
\* 'cq.' in code and 'import cadquery as cq' not in code
UsesCqWithoutImport(code) == code = ScriptNoImport
\* 'result' in code
MentionsResult(code) == code \in {ScriptExtrude, ScriptNoImport}
\* re.findall(r'\b([a-zA-Z_][a-zA-Z0-9_]*)\b', code)
Identifiers(code) ==
    IF code = ScriptExtrude THEN {"result", "extrude", "height"}
    ELSE IF code = ScriptNoImport THEN {"result", "cq", "Workplane", "XY", "sphere", "radius"}
    ELSE {}

\* _validate_cadquery_code (the scripts of the model all compile)
validate_cadquery_code(code) ==
    IF IsBlank(code) THEN FALSE
    ELSE IF UsesCqWithoutImport(code) THEN FALSE
    ELSE MentionsResult(code)

excluded_words == {"cq", "result", "Workplane", "box", "cylinder", "sphere", "extrude",
                   "cut", "union", "fillet", "chamfer", "faces", "edges", "vertices",
                   "XY", "XZ", "YZ", "import", "as", "from", "def", "class", "if",
                   "else", "elif", "for", "while", "try", "except", "finally",
                   "and", "or", "not", "in", "is", "True", "False", "None"}

\* _detect_parameters_in_code: the identifiers taken for parameters (none of the
\* model's identifiers starts with '_', is one letter long, or is upper case
\* except the excluded workplane names)
detect_parameters_in_code(code) == Identifiers(code) \ excluded_words

\* _infer_parameter_type: every name of the model holds a dimension keyword
infer_parameter_type(var_name) == [type |-> "numeric", default_value |-> IntV(10)]

\* the sequences that enumerate a set: a Python set is iterated in hash order
Orders(S) == {q \in [1..Cardinality(S) -> S] : \A x \in S : \E i \in DOMAIN q : q[i] = x}

RECURSIVE add_detected_parameters(_, _, _)
add_detected_parameters(m, s, names) ==
    IF names = <<>> THEN m
    ELSE add_detected_parameters(
             IF find_parameter_by_name(m.g[s], names[1]) = NoId
             THEN add_parameter(m, s, names[1], infer_parameter_type(names[1]).default_value,
                                infer_parameter_type(names[1]).type, "", None, None)
             ELSE m,
             s, Tail(names))

\* collect_dependents of _recalculate_dependencies: the operation, then its
\* dependents depth first
RECURSIVE collect_dependents(_, _, _)
collect_dependents(pig, todo, affected_nodes) ==
    IF todo = <<>> THEN affected_nodes
    ELSE IF todo[1] \in {affected_nodes[i] : i \in DOMAIN affected_nodes}
    THEN collect_dependents(pig, Tail(todo), affected_nodes)
    ELSE collect_dependents(pig, SetToSeq(NodeOf(pig, todo[1]).dependents) \o Tail(todo),
                            Append(affected_nodes, todo[1]))

\* _recalculate_dependencies: [m, affected]
recalculate_dependencies(m, s, operation_id) ==
    [m |-> [m EXCEPT !.g[s] = get_execution_order(@)],
     affected |-> collect_dependents(m.g[s], <<operation_id>>, <<>>)]

\* enable_direct_code_editing: [m, success, affected]; names is the order in
\* which the detected identifiers are visited
enable_direct_code_editing(m, s, operation_id, new_cadquery_code, names) ==
    LET m0 == get_graph(m, s)
        pig == m0.g[s]
    IN IF operation_id \notin NodeIds(pig)
       THEN [m |-> m0, success |-> FALSE, affected |-> <<>>]
       ELSE IF NodeOf(pig, operation_id).node_type # "operation"
       THEN [m |-> m0, success |-> FALSE, affected |-> <<>>]
       ELSE IF ~validate_cadquery_code(new_cadquery_code)
       THEN [m |-> m0, success |-> FALSE, affected |-> <<>>]
       ELSE LET m1 == [m0 EXCEPT !.g[s].nodes[IndexOf(pig, operation_id)].cadquery_code =
                                     new_cadquery_code]
                m2 == add_detected_parameters(m1, s, names)
                rc == recalculate_dependencies(m2, s, operation_id)
                m3 == add_version_to_history(rc.m, s, "direct_edit",
                          [operation_id |-> operation_id,
                           previous_code |-> NodeOf(pig, operation_id).cadquery_code,
                           new_code |-> new_cadquery_code, affected_nodes |-> rc.affected])
            IN [m |-> m3, success |-> TRUE, affected |-> rc.affected]

\* a saved script as load_previous_generation reads it: its parameter block,
\* its operations block and the plan id of its header
NoFile == [found |-> FALSE, parameters |-> <<>>, cadquery_code |-> NoCode]
SavedFile == [found |-> TRUE,
              parameters |-> <<[name |-> "height", value |-> IntV(2)]>>,
              cadquery_code |-> ScriptExtrude]

\* a load that builds on the graph as it is, without clearing it: a faulty
\* variant of update_pig_from_loaded_data
update_pig_keeping_nodes(m, s, parameters, cadquery_code) ==
    LET m0 == get_graph(m, s)
        m2 == add_parameters_to_pig(m0, s, parameters)
        m3 == IF ~IsBlank(cadquery_code)
              THEN [m2 EXCEPT !.g[s] = add_node(@, OperationNode(m2.id, "loaded_operation",
                                                    "loaded", cadquery_code, <<>>)),
                              !.id = m2.id + 1]
              ELSE m2
    IN [m3 EXCEPT !.g[s] = get_execution_order(@)]

\* _update_pig_from_loaded_data: clears the graph in place and rebuilds it
update_pig_from_loaded_data(m, s, parameters, cadquery_code) ==
    LET m0 == get_graph(m, s)
        m1 == [m0 EXCEPT !.g[s] = EmptyGraph]
        m2 == add_parameters_to_pig(m1, s, parameters)
        m3 == IF ~IsBlank(cadquery_code)
              THEN [m2 EXCEPT !.g[s] = add_node(@, OperationNode(m2.id, "loaded_operation",
                                                    "loaded", cadquery_code, <<>>)),
                              !.id = m2.id + 1]
              ELSE m2
    IN [m3 EXCEPT !.g[s] = get_execution_order(@)]

\* load_previous_generation with the file at file_path: [m, success]
load_previous_generation(m, s, file) ==
    IF ~file.found THEN [m |-> m, success |-> FALSE]
    ELSE LET m1 == update_pig_from_loaded_data(m, s, file.parameters, file.cadquery_code)
         IN [m |-> add_version_to_history(m1, s, "load_previous",
                       [parameters |-> file.parameters, cadquery_code |-> file.cadquery_code]),
             success |-> TRUE]

----------------------------------------------------------------------------
(* The inputs the model feeds to the handlers.                             *)

SessionIds == {"s1"}

\* add_parameter(name, value, type, units, min, max)
ParamSpecs ==
    {[name |-> "radius", value |-> IntV(1), type |-> "numeric", units |-> "mm",
      min_value |-> IntV(0), max_value |-> IntV(5)],
     [name |-> "Height", value |-> StrV("tall"), type |-> "string", units |-> "",
      min_value |-> None, max_value |-> None]}

ParameterNames == {"radius", "height"}
NewValues == {IntV(3), IntV(9), StrV("x")}

\* an ExecutionPlan: AST style (PlanSphere) or script style (PlanExtrude)
NoPlan == [id |-> "", new_parameters |-> <<>>, ast_nodes |-> <<>>, cadquery_code |-> NoCode]
PlanSphere ==
    [id |-> "sphere",
     new_parameters |-> <<[name |-> "radius", value |-> IntV(1)]>>,
     ast_nodes |-> <<[id |-> "n1", node_type |-> "primitive", operation |-> "sphere",
                      parameters |-> <<[key |-> "radius", value |-> StrV("radius")]>>]>>,
     cadquery_code |-> NoCode]
PlanExtrude ==
    [id |-> "extrude",
     new_parameters |-> <<[name |-> "height", value |-> IntV(2)]>>,
     ast_nodes |-> <<>>,
     cadquery_code |-> ScriptExtrude]
Plans == {PlanSphere, PlanExtrude}

----------------------------------------------------------------------------
(* The manager's state as one record, and back.                            *)

M == [g |-> graphs, vh |-> version_history, id |-> nextId, clock |-> clock]

SetM(m) ==
    /\ graphs' = m.g
    /\ version_history' = m.vh
    /\ nextId' = m.id
    /\ clock' = m.clock

HistoryLen(s) == IF s \in DOMAIN version_history THEN Len(version_history[s]) ELSE 0

\* the model has identifiers left for n new nodes
IdsLeft(n) == nextId + n <= MaxIds + 1

----------------------------------------------------------------------------
(* dialog_manager.py                                                       *)

NoModel == [script |-> "", parameters |-> <<>>, operations |-> <<>>]

Message(message_type, call, content) ==
    [message_type |-> message_type, call |-> call, content |-> content]

\* add_message raises ValueError for a session that was never created
CanAddMessage(s) == s \in DOMAIN sessions
\* the message put in front of the conversation: a faulty variant of add_message
add_message_in_front(dialog, s, message) == [dialog EXCEPT ![s] = <<message>> \o @]

add_message(dialog, s, message) == [dialog EXCEPT ![s] = Append(@, message)]

\* update_model_state: creates the ModelState when the session has none
update_model_state(states, s, model_data) == Override(states, s, model_data)

\* a handler that appends a message may start
MessagesLeft(s, n) == s \in DOMAIN sessions => Len(sessions[s]) + n <= MaxMessages + 1

----------------------------------------------------------------------------
(* executor.py: the script a run executes is assembled before the          *)
(* subprocess is awaited; the model of a successful run is the model of    *)
(* that script.                                                            *)

\* _ast_to_python(plan): the plan's own script and parameters, or its AST
plan_script(plan) ==
    [script |-> "plan", parameters |-> plan.new_parameters,
     operations |-> IF plan.cadquery_code # NoCode THEN <<plan.cadquery_code>>
                    ELSE [i \in DOMAIN plan.ast_nodes |->
                             generate_cadquery_code_for_node(plan.ast_nodes[i])]]

\* _regenerate_model / _build_editable_code: every parameter and operation of the graph state
state_script(state) ==
    [script |-> "regenerate",
     parameters |-> [i \in DOMAIN state.parameters |->
                        [name |-> state.parameters[i].name, value |-> state.parameters[i].value]],
     operations |-> [i \in DOMAIN state.operations |-> state.operations[i].code]]

ExecStatuses == {"success", "error"}

----------------------------------------------------------------------------
(* The state after construction: no session, no graph, nothing in flight.  *)

Ret(op, sid, ok, out) == [op |-> op, sid |-> sid, ok |-> ok, out |-> out]

Init ==
    /\ graphs = <<>>
    /\ version_history = <<>>
    /\ sessions = <<>>
    /\ model_states = <<>>
    /\ session_codes = <<>>
    /\ is_processing = FALSE
    /\ current_session_id = ""
    /\ calls = <<>>
    /\ nextId = 1
    /\ clock = 1
    /\ nextCall = 1
    /\ ret = Ret("init", "", TRUE, <<>>)

GraphOf(s) == IF s \in DOMAIN graphs THEN graphs[s] ELSE EmptyGraph

\* CentralOrchestrator.start_session: a fresh uuid
start_session(s) ==
    /\ s \notin DOMAIN sessions \cup DOMAIN graphs \cup DOMAIN model_states
    /\ current_session_id' = s
    /\ sessions' = Override(sessions, s, <<>>)
    /\ model_states' = Override(model_states, s, NoModel)
    /\ UNCHANGED session_codes
    /\ SetM(initialize_empty_graph(M, s))
    /\ ret' = Ret("start_session", s, TRUE, <<>>)
    /\ UNCHANGED <<is_processing, calls, nextCall>>

StartSession == \E s \in SessionIds : start_session(s)

\* the parameter_updates dicts of a batch update
UpdateChoices ==
    {<<[name |-> "radius", value |-> v]>> : v \in NewValues}
        \cup {<<[name |-> "radius", value |-> IntV(9)], [name |-> "height", value |-> IntV(3)]>>,
              <<[name |-> "radius", value |-> IntV(9)], [name |-> "height", value |-> StrV("x")]>>}

\* the scripts of a direct edit
Scripts == {ScriptExtrude, ScriptEmpty, ScriptNoImport}

\* the files load_previous_generation may find
Files == {SavedFile, NoFile}

----------------------------------------------------------------------------
(* The operations of the PIG manager, called on their own.  ret is what    *)
(* the last call answered.                                                 *)

ManagerStep(m, result) ==
    /\ SetM(m)
    /\ ret' = result
    /\ UNCHANGED <<sessions, model_states, session_codes, is_processing, current_session_id, calls, nextCall>>

\* PIGManager.add_parameter
AddParameterStep(s, p) ==
    /\ IdsLeft(1)
    /\ ManagerStep(add_parameter(M, s, p.name, p.value, p.type, p.units,
                                 p.min_value, p.max_value),
                   Ret("add_parameter", s, TRUE, [node_id |-> nextId]))

AddParameter == \E s \in SessionIds, p \in ParamSpecs : AddParameterStep(s, p)

\* the inputs dicts an add_operation call is given: at most two node ids
InputChoices(ids) ==
    {<<>>} \cup {<<[key |-> "a", ref |-> IdRef(i)]>> : i \in ids}
           \cup {<<[key |-> "a", ref |-> IdRef(q[1])], [key |-> "b", ref |-> IdRef(q[2])]>> :
                    q \in {r \in ids \X ids : r[1] < r[2]}}

\* PIGManager.add_operation
AddOperationStep(s, inputs) ==
    /\ IdsLeft(1)
    /\ ManagerStep(add_operation(M, s, "op", "fillet", Code("fillet", <<>>), inputs),
                   Ret("add_operation", s, TRUE, [node_id |-> nextId]))

AddOperation ==
    \E s \in SessionIds :
        \E inputs \in InputChoices(NodeIds(GraphOf(s))) : AddOperationStep(s, inputs)

\* PIGManager.get_graph_state: reads, and leaves the order it computed in the graph
GetGraphStateStep(s) == ManagerStep(get_graph_state(M, s).m, Ret("get_graph_state", s, TRUE, <<>>))

GetGraphState == \E s \in SessionIds : GetGraphStateStep(s)

\* PIGManager.update_parameter_value
UpdateParameterValueStep(s, name, v) ==
    LET r == update_parameter_value(M, s, name, v)
    IN ManagerStep(r.m, Ret("update_parameter", s, r.ok,
                            [name |-> name, value |-> v, error |-> r.err,
                             affected |-> r.affected]))

UpdateParameterValue ==
    \E s \in SessionIds, name \in ParameterNames, v \in NewValues :
        UpdateParameterValueStep(s, name, v)

\* PIGManager.update_from_execution_plan
AbsorbPlanStep(s, plan, status) ==
    LET m1 == update_from_execution_plan(M, s, plan, status)
    IN /\ m1.id <= MaxIds + 1
       /\ ManagerStep(m1, Ret("absorb_plan", s, TRUE, [plan |-> plan.id]))

AbsorbPlan ==
    \E s \in SessionIds, plan \in Plans, status \in ExecStatuses : AbsorbPlanStep(s, plan, status)

\* PIGManager.create_version_checkpoint
CreateVersionCheckpointStep(s) ==
    LET cp == create_version_checkpoint(M, s)
    IN /\ HistoryLen(s) + 1 <= MaxHistory
       /\ ManagerStep(cp.m, Ret("checkpoint", s, TRUE, [checkpoint_id |-> cp.checkpoint_id]))

CreateVersionCheckpoint == \E s \in SessionIds : CreateVersionCheckpointStep(s)

\* PIGManager.rollback_to_version.  The restored nodes get fresh identifiers
\* beyond MaxIds: the number of rollbacks is bounded by MaxHistory
RollbackToVersionStep(s, checkpoint_id) ==
    LET rb == rollback_to_version(M, s, checkpoint_id)
    IN /\ rb.success => HistoryLen(s) + 1 <= MaxHistory
       /\ ManagerStep(rb.m, Ret("rollback", s, rb.success, [checkpoint_id |-> checkpoint_id]))

RollbackToVersion ==
    \E s \in SessionIds, checkpoint_id \in 1..clock : RollbackToVersionStep(s, checkpoint_id)

\* PIGManager.enhanced_parameter_update
EnhancedParameterUpdateStep(s, parameter_updates) ==
    LET up == enhanced_parameter_update(M, s, parameter_updates)
    IN /\ HistoryLen(s) + 2 <= MaxHistory
       /\ ManagerStep(up.m, Ret("batch_update", s, up.success,
                                [parameter_updates |-> parameter_updates,
                                 updated_parameters |-> up.updated_parameters,
                                 update_results |-> up.update_results]))

EnhancedParameterUpdate ==
    \E s \in SessionIds, parameter_updates \in UpdateChoices :
        EnhancedParameterUpdateStep(s, parameter_updates)

\* PIGManager.enable_direct_code_editing
EnableDirectCodeEditingStep(s, operation_id, new_code, names) ==
    LET ed == enable_direct_code_editing(M, s, operation_id, new_code, names)
    IN /\ ed.success => HistoryLen(s) + 1 <= MaxHistory /\ ed.m.id <= MaxIds + 1
       /\ ManagerStep(ed.m, Ret("direct_edit", s, ed.success, <<>>))

EnableDirectCodeEditing ==
    \E s \in SessionIds, new_code \in Scripts :
        \E operation_id \in NodeIds(GraphOf(s)) \cup {nextId} :
            \E names \in Orders(detect_parameters_in_code(new_code)) :
                EnableDirectCodeEditingStep(s, operation_id, new_code, names)

\* PIGManager.load_previous_generation
LoadPreviousGenerationStep(s, file) ==
    LET ld == load_previous_generation(M, s, file)
    IN /\ ld.success => HistoryLen(s) + 1 <= MaxHistory /\ ld.m.id <= MaxIds + 1
       /\ ManagerStep(ld.m, Ret("load_previous", s, ld.success, <<>>))

LoadPreviousGeneration == \E s \in SessionIds, file \in Files : LoadPreviousGenerationStep(s, file)

\* The graph under construction and parameter updates
NextGraph ==
    \/ AddParameter
    \/ AddOperation
    \/ GetGraphState
    \/ UpdateParameterValue
    \/ AbsorbPlan

SpecGraph == Init /\ [][NextGraph]_vars

\* Every operation of the manager that adds, replaces or restores nodes,
\* with checkpoints and rollbacks
NextVersions ==
    \/ AddParameter
    \/ AddOperation
    \/ GetGraphState
    \/ AbsorbPlan
    \/ CreateVersionCheckpoint
    \/ RollbackToVersion
    \/ EnableDirectCodeEditing
    \/ LoadPreviousGeneration

SpecVersions == Init /\ [][NextVersions]_vars

----------------------------------------------------------------------------
(* The orchestrator's edit operations (orchestrator.py 350-543 over        *)
(* edit_manager.py) and the parameter update of the websocket.  None reads *)
(* is_processing.  An edit operation ends by appending a message to the    *)
(* conversation; for a session the dialog manager does not know,           *)
(* add_message raises and the handler answers success = False, after       *)
(* whatever it did to the graph.                                           *)

\* the "parameter_update" message of the websocket: update_parameter_value, then
\* the affected nodes are executed and the result is sent back
UpdateParameterStep(s, name, v) ==
    LET r == update_parameter_value(M, s, name, v)
    IN /\ SetM(r.m)
       /\ ret' = Ret("update_parameter", s, r.ok,
                     [name |-> name, value |-> v, error |-> r.err, affected |-> r.affected])
       /\ UNCHANGED <<sessions, model_states, session_codes, is_processing, current_session_id,
                      calls, nextCall>>

UpdateParameter ==
    \E s \in SessionIds, name \in ParameterNames, v \in NewValues :
        UpdateParameterStep(s, name, v)

\* a regeneration that reports success whatever the executor answers: a
\* faulty variant of regenerate_model
regenerate_model_regardless(m, s, status) ==
    LET gs == get_graph_state(m, s)
    IN [m |-> gs.m, success |-> TRUE, model_data |-> state_script(gs.state)]

\* _regenerate_model: [m, success, model_data]; status is what the executor answers
regenerate_model(m, s, status) ==
    LET gs == get_graph_state(m, s)
    IN [m |-> gs.m, success |-> status = "success",
        model_data |-> IF status = "success" THEN state_script(gs.state) ELSE NoModel]

\* the tail of an edit handler: model state update, response message, return
Respond(op, s, success, regenerated, model_data, out) ==
    /\ model_states' = IF success /\ regenerated
                       THEN update_model_state(model_states, s, model_data)
                       ELSE model_states
    /\ UNCHANGED session_codes
    /\ sessions' = IF CanAddMessage(s)
                   THEN add_message(sessions, s,
                            Message(IF success THEN "success" ELSE "error", 0, op))
                   ELSE sessions
    /\ ret' = Ret(op, s, success /\ CanAddMessage(s), out)
    /\ UNCHANGED <<is_processing, current_session_id, calls, nextCall>>

\* create_checkpoint
CreateCheckpointStep(s) ==
    LET cp == create_version_checkpoint(M, s)
    IN /\ HistoryLen(s) + 1 <= MaxHistory
       /\ MessagesLeft(s, 1)
       /\ SetM(cp.m)
       /\ Respond("checkpoint", s, TRUE, FALSE, NoModel, [checkpoint_id |-> cp.checkpoint_id])

CreateCheckpoint == \E s \in SessionIds : CreateCheckpointStep(s)

\* rollback_to_checkpoint: rollback_to_version, then the model is regenerated
RollbackStep(s, checkpoint_id, status) ==
    LET rb == rollback_to_version(M, s, checkpoint_id)
        rg == regenerate_model(rb.m, s, status)
    IN /\ MessagesLeft(s, 1)
       /\ rb.success => HistoryLen(s) + 1 <= MaxHistory
       /\ SetM(IF rb.success THEN rg.m ELSE rb.m)
       /\ Respond("rollback", s, rb.success, rb.success /\ rg.success, rg.model_data,
                  [checkpoint_id |-> checkpoint_id])

Rollback ==
    \E s \in SessionIds, checkpoint_id \in 1..clock, status \in ExecStatuses :
        RollbackStep(s, checkpoint_id, status)

\* update_parameters_batch: enhanced_parameter_update, then the model is regenerated
BatchUpdateStep(s, parameter_updates, status) ==
    LET up == enhanced_parameter_update(M, s, parameter_updates)
        rg == regenerate_model(up.m, s, status)
    IN /\ HistoryLen(s) + 2 <= MaxHistory
       /\ MessagesLeft(s, 1)
       /\ SetM(rg.m)
       /\ Respond("batch_update", s, up.success, rg.success, rg.model_data,
                  [parameter_updates |-> parameter_updates,
                   updated_parameters |-> up.updated_parameters,
                   update_results |-> up.update_results])

BatchUpdate ==
    \E s \in SessionIds, parameter_updates \in UpdateChoices, status \in ExecStatuses :
        BatchUpdateStep(s, parameter_updates, status)

\* edit_code_directly: a checkpoint, the edit, then the model is regenerated
DirectEditStep(s, operation_id, new_code, names, status) ==
    LET cp == create_version_checkpoint(M, s)
        ed == enable_direct_code_editing(cp.m, s, operation_id, new_code, names)
        rg == regenerate_model(ed.m, s, status)
    IN /\ HistoryLen(s) + (IF ed.success THEN 2 ELSE 1) <= MaxHistory
       /\ MessagesLeft(s, 1)
       /\ ed.m.id <= MaxIds + 1
       /\ SetM(IF ed.success THEN rg.m ELSE ed.m)
       /\ Respond("direct_edit", s, ed.success, ed.success /\ rg.success,
                  rg.model_data,
                  [operation_id |-> operation_id, new_code |-> new_code,
                   affected_nodes |-> ed.affected,
                   checkpoint_before |-> cp.checkpoint_id])

DirectEdit ==
    \E s \in SessionIds, new_code \in Scripts, status \in ExecStatuses :
        \E operation_id \in NodeIds(GraphOf(s)) \cup {nextId} :
            \E names \in Orders(detect_parameters_in_code(new_code)) :
                DirectEditStep(s, operation_id, new_code, names, status)

\* load_for_editing: load_previous_generation, then the graph state is read
LoadPreviousStep(s, file) ==
    LET ld == load_previous_generation(M, s, file)
        gs == get_graph_state(ld.m, s)
    IN /\ ld.success => HistoryLen(s) + 1 <= MaxHistory /\ ld.m.id <= MaxIds + 1
       /\ MessagesLeft(s, 1)
       /\ SetM(IF ld.success THEN gs.m ELSE ld.m)
       /\ Respond("load_previous", s, ld.success, FALSE, NoModel, [found |-> file.found])

LoadPrevious == \E s \in SessionIds, file \in Files : LoadPreviousStep(s, file)

\* The edit operations and the live parameter update, one after another
NextEdit ==
    \/ StartSession
    \/ UpdateParameter
    \/ CreateCheckpoint
    \/ Rollback
    \/ BatchUpdate
    \/ DirectEdit
    \/ LoadPrevious

SpecEdit == Init /\ [][NextEdit]_vars

----------------------------------------------------------------------------
(* process_user_input (orchestrator.py 48-301).  The coroutine runs without *)
(* suspension except where it awaits the LLM or the executor subprocess;   *)
(* one action models the code from one such point to the next.  calls[c]   *)
(* is the frame of a suspended call: where it waits (pc) and its locals.   *)

\* what the user typed, as resolve_intention and
\* _extract_parameter_modification read it
Utterances ==
    {[text |-> "crie uma esfera", intention |-> "new_instruction",
      param_match |-> [found |-> FALSE, param_name |-> "", new_value |-> None]],
     [text |-> "mude radius para 9", intention |-> "modification",
      param_match |-> [found |-> TRUE, param_name |-> "radius", new_value |-> IntV(9)]]}

\* what generate_plan answers: an LLMResponse
LLMResponse(requires_clarification, execution_plan) ==
    [requires_clarification |-> requires_clarification, execution_plan |-> execution_plan,
     clarification_questions |-> IF requires_clarification THEN <<"which size">> ELSE <<>>]
LLMResponses ==
    {LLMResponse(FALSE, plan) : plan \in Plans}
        \cup {LLMResponse(TRUE, PlanSphere), LLMResponse(FALSE, NoPlan)}
\* what generate_plan answers to a correction query
Corrections == {LLMResponse(FALSE, plan) : plan \in Plans \cup {NoPlan}}

\* _pig_nodes_to_python: the requested nodes and their dependencies, in execution order
pig_nodes_script(pig, node_ids) ==
    LET ids == {node_ids[i] : i \in DOMAIN node_ids}
        nodes_to_execute == ids \cup UNION {NodeOf(pig, id).dependencies : id \in ids}
        ordered_nodes == SelectIn(execution_order_result(pig).order, nodes_to_execute)
        params == SelectSeq(ordered_nodes, LAMBDA id : NodeOf(pig, id).node_type = "parameter")
        ops == SelectSeq(ordered_nodes, LAMBDA id : NodeOf(pig, id).node_type = "operation")
    IN [script |-> "pig_update",
        parameters |-> [i \in DOMAIN params |-> [name |-> NodeOf(pig, params[i]).name,
                                                 value |-> NodeOf(pig, params[i]).value]],
        operations |-> [i \in DOMAIN ops |-> NodeOf(pig, ops[i]).cadquery_code]]

\* the result of an executor run: the error message tells the runs apart
ExecutionResult(status, script, run) ==
    [status |-> status,
     model_data |-> IF status = "success" THEN script ELSE NoModel,
     generated_code |-> script,
     error_message |-> IF status = "success" THEN 0 ELSE run]
NoResult == ExecutionResult("none", NoModel, 0)

Frame(s, pc, script) ==
    [sid |-> s, pc |-> pc, script |-> script, attempt |-> 0,
     llm_plan |-> NoPlan, execution_plan |-> NoPlan, param_name |-> "",
     result |-> NoResult, runs |-> 0, corrections |-> 0]

\* a guard that never rejects: a faulty variant of busy
never_busy(flag) == FALSE

\* if self.is_processing
busy(flag) == flag

\* the retries of _execute_plan_with_retry
max_retries == 2

\* one correction too many: a faulty variant of may_retry
may_retry_once_more(attempt) == attempt < max_retries + 1

\* elif attempt < max_retries
may_retry(attempt) == attempt < max_retries

\* a return that forgets the finally clause: a faulty variant of Return
return_without_finally(c, s, ok, out) ==
    /\ UNCHANGED is_processing
    /\ calls' = [d \in DOMAIN calls \ {c} |-> calls[d]]
    /\ ret' = Ret("turn", s, ok, out)

\* the call returns: finally clears the flag
Return(c, s, ok, out) ==
    /\ is_processing' = FALSE
    /\ calls' = [d \in DOMAIN calls \ {c} |-> calls[d]]
    /\ ret' = Ret("turn", s, ok, out)

\* the call is suspended (again) with frame f
Suspend(c, f) ==
    /\ calls' = Override(calls, c, f)
    /\ ret' = Ret("await", f.sid, TRUE, [call |-> c, pc |-> f.pc])

\* _process_with_llm up to the await of generate_plan: the graph state is read
AskPlanner(c, s, m) ==
    /\ SetM(get_graph_state(m, s).m)
    /\ Suspend(c, Frame(s, "generate_plan", NoModel))

\* process_user_input up to its first await (or to its return)
SubmitTurnStep(arg, u) ==
        LET c == nextCall
            s == IF arg = "" THEN current_session_id ELSE arg
            m0 == get_graph(M, s)
            param_id == find_parameter_by_name(m0.g[s], u.param_match.param_name)
            up == update_parameter(m0.g[s], param_id, u.param_match.new_value)
        IN /\ nextCall <= MaxCalls
           /\ nextCall' = nextCall + 1
           /\ UNCHANGED <<model_states, session_codes, current_session_id>>
           /\ IF busy(is_processing)
              THEN /\ ret' = Ret("turn", s, FALSE, [status |-> "busy", call |-> c])
                   /\ UNCHANGED <<graphs, version_history, nextId, clock, sessions,
                                  is_processing, calls>>
              ELSE IF ~CanAddMessage(s)
              THEN \* add_message raises, and raises again in the except block
                   /\ ret' = Ret("turn", s, FALSE, [status |-> "exception", call |-> c])
                   /\ is_processing' = FALSE
                   /\ UNCHANGED <<graphs, version_history, nextId, clock, sessions, calls>>
              ELSE /\ MessagesLeft(s, 2)
                   /\ is_processing' = TRUE
                   /\ sessions' = add_message(sessions, s, Message("user_input", c, u.text))
                   /\ IF /\ u.intention = "modification"
                         /\ u.param_match.found
                         /\ param_id # NoId
                         /\ up.ok
                      THEN /\ SetM([m0 EXCEPT !.g[s] = up.pig])
                           /\ Suspend(c, [Frame(s, "execute_pig_nodes",
                                                pig_nodes_script(up.pig, up.affected))
                                             EXCEPT !.param_name = u.param_match.param_name])
                      ELSE AskPlanner(c, s, m0)

SubmitTurn == \E arg \in SessionIds \cup {""}, u \in Utterances : SubmitTurnStep(arg, u)

\* _try_parameter_update after execute_pig_nodes answered
FastPathReturnsStep(c, status) ==
        LET f == calls[c]
        IN /\ f.pc = "execute_pig_nodes"
           /\ UNCHANGED <<current_session_id, nextCall>>
           /\ IF status = "success"
              THEN /\ model_states' = update_model_state(model_states, f.sid, f.script)
                   /\ UNCHANGED session_codes
                   /\ sessions' = add_message(sessions, f.sid,
                                      Message("system_response", c, "parameter updated"))
                   /\ Return(c, f.sid, TRUE,
                             [status |-> "fast_path", call |-> c, param_name |-> f.param_name])
                   /\ UNCHANGED <<graphs, version_history, nextId, clock>>
              ELSE /\ AskPlanner(c, f.sid, M)
                   /\ UNCHANGED <<model_states, session_codes, sessions, is_processing>>

FastPathReturns ==
    \E c \in DOMAIN calls, status \in ExecStatuses : FastPathReturnsStep(c, status)

\* a test that lets a plan go ahead of the questions: a faulty variant
plan_before_clarification(llm_response) ==
    llm_response.requires_clarification /\ llm_response.execution_plan = NoPlan

\* the test of step 4 of _process_with_llm: the answer asks for clarification
asks_clarification(llm_response) == llm_response.requires_clarification

\* _process_with_llm after generate_plan answered, up to the first execute_plan
PlannerReturnsStep(c, llm_response) ==
        LET f == calls[c]
            plan == llm_response.execution_plan
        IN /\ f.pc = "generate_plan"
           /\ IdsLeft(PlanIds(plan))
           /\ UNCHANGED <<current_session_id, nextCall, model_states, session_codes,
                          graphs, version_history, nextId, clock>>
           /\ IF asks_clarification(llm_response)
              THEN /\ sessions' = add_message(sessions, f.sid,
                                      Message("system_response", c, "clarification"))
                   /\ Return(c, f.sid, TRUE,
                             [status |-> "clarification", call |-> c,
                              clarification_questions |-> llm_response.clarification_questions])
              ELSE IF plan # NoPlan
              THEN /\ Suspend(c, [f EXCEPT !.pc = "execute_plan", !.llm_plan = plan,
                                           !.execution_plan = plan,
                                           !.script = plan_script(plan)])
                   /\ UNCHANGED <<sessions, is_processing>>
              ELSE /\ sessions' = add_message(sessions, f.sid,
                                      Message("system_response", c, "informative"))
                   /\ Return(c, f.sid, TRUE, [status |-> "informative", call |-> c])

PlannerReturns ==
    \E c \in DOMAIN calls, llm_response \in LLMResponses : PlannerReturnsStep(c, llm_response)

\* self._session_codes[session_id] = execution_result.generated_code
save_session_code(codes, s, generated_code) == Override(codes, s, generated_code)

\* _process_with_llm after _execute_plan_with_retry returned result: the plan
\* of the first answer is absorbed, then the response is built
Finish(c, f, result) ==
    LET m1 == update_from_execution_plan(M, f.sid, f.llm_plan, result)
    IN /\ m1.id <= MaxIds + 1
       /\ SetM(m1)
       /\ model_states' = IF result.status = "success"
                          THEN update_model_state(model_states, f.sid, result.model_data)
                          ELSE model_states
       /\ session_codes' = IF result.status = "success"
                           THEN save_session_code(session_codes, f.sid, result.generated_code)
                           ELSE session_codes
       /\ sessions' = add_message(sessions, f.sid,
                          IF result.status = "success"
                          THEN Message("system_response", c, "plan")
                          ELSE Message("error", c, "execution error"))
       /\ Return(c, f.sid, result.status = "success",
                 [status |-> IF result.status = "success" THEN "executed" ELSE "execution_error",
                  call |-> c, error_message |-> result.error_message,
                  plan |-> f.llm_plan.id, executed |-> f.execution_plan.id,
                  runs |-> f.runs, corrections |-> f.corrections])

\* _execute_plan_with_retry after execute_plan answered
ExecutorReturnsStep(c, status) ==
        LET f == calls[c]
            result == ExecutionResult(status, f.script, f.runs + 1)
            g == [f EXCEPT !.result = result, !.runs = @ + 1]
        IN /\ f.pc = "execute_plan"
           /\ UNCHANGED <<current_session_id, nextCall>>
           /\ IF result.status = "success"
              THEN Finish(c, g, result)
              ELSE IF may_retry(f.attempt)
              THEN /\ Suspend(c, [g EXCEPT !.pc = "correct_plan"])
                   /\ UNCHANGED <<graphs, version_history, nextId, clock, model_states, session_codes,
                                  sessions, is_processing>>
              ELSE Finish(c, g, result)

ExecutorReturns ==
    \E c \in DOMAIN calls, status \in ExecStatuses : ExecutorReturnsStep(c, status)

\* _execute_plan_with_retry after the correction query was answered
CorrectionReturnsStep(c, corrected_response) ==
        LET f == calls[c]
            plan == corrected_response.execution_plan
            g == [f EXCEPT !.corrections = @ + 1]
        IN /\ f.pc = "correct_plan"
           /\ UNCHANGED <<current_session_id, nextCall>>
           /\ IF plan # NoPlan
              THEN /\ Suspend(c, [g EXCEPT !.pc = "execute_plan", !.execution_plan = plan,
                                           !.script = plan_script(plan),
                                           !.attempt = @ + 1])
                   /\ UNCHANGED <<graphs, version_history, nextId, clock, model_states, session_codes,
                                  sessions, is_processing>>
              ELSE Finish(c, g, g.result)

CorrectionReturns ==
    \E c \in DOMAIN calls, corrected_response \in Corrections :
        CorrectionReturnsStep(c, corrected_response)

----------------------------------------------------------------------------
(* Turns, with the checkpoint and rollback requests that may arrive while  *)
(* a turn is suspended.                                                    *)
Next ==
    \/ StartSession
    \/ CreateCheckpoint
    \/ Rollback
    \/ SubmitTurn
    \/ FastPathReturns
    \/ PlannerReturns
    \/ ExecutorReturns
    \/ CorrectionReturns

Spec == Init /\ [][Next]_vars

----------------------------------------------------------------------------
(* Properties.  The graph notions they use are defined here from the edges *)
(* alone, not through the traversals of the code.                          *)

\* the nodes that S reaches along dependents edges, S included
RECURSIVE dependents_closure(_, _)
dependents_closure(pig, S) ==
    LET T == S \cup UNION {NodeOf(pig, i).dependents \cap NodeIds(pig) : i \in S}
    IN IF T = S THEN S ELSE dependents_closure(pig, T)

\* the nodes that S reaches along dependencies edges, S included
RECURSIVE dependencies_closure(_, _)
dependencies_closure(pig, S) ==
    LET T == S \cup UNION {NodeOf(pig, i).dependencies \cap NodeIds(pig) : i \in S}
    IN IF T = S THEN S ELSE dependencies_closure(pig, T)

\* every node a change of node id has to recompute
Downstream(pig, id) == dependents_closure(pig, NodeOf(pig, id).dependents \cap NodeIds(pig))

\* seq lists each of its elements once, and every node after those of its
\* dependencies that seq lists too
TopologicalList(pig, seq) ==
    /\ \A i, j \in DOMAIN seq : i # j => seq[i] # seq[j]
    /\ \A i, j \in DOMAIN seq : seq[j] \in NodeOf(pig, seq[i]).dependencies => j < i

\* C4: after update_parameter on an existing parameter, the affected list
\* holds exactly the nodes reachable from the parameter along dependents
\* edges, each once, and every node after its dependencies in the list.
C4_AffectedIsDependentsClosure ==
    (ret.op = "update_parameter" /\ ret.ok) =>
        LET pig == graphs[ret.sid]
            p == find_parameter_by_name(pig, ret.out.name)
            affected == ret.out.affected
        IN /\ {affected[i] : i \in DOMAIN affected} = Downstream(pig, p)
           /\ TopologicalList(pig, affected)

\* an update whose parameter has a dependent of a dependent
C4_Witness ==
    /\ ret.op = "update_parameter"
    /\ ret.ok
    /\ Len(ret.out.affected) = 2
    /\ ret.out.affected[1] \in
           NodeOf(graphs[ret.sid], ret.out.affected[2]).dependencies
    /\ find_parameter_by_name(graphs[ret.sid], ret.out.name) \notin
           NodeOf(graphs[ret.sid], ret.out.affected[2]).dependencies

\* C8: the stored execution_order lists every node of the graph exactly once
\* and each node after all of its dependencies, after add_parameter,
\* add_operation, absorb_plan, direct edit, load_previous and rollback.
C8_StoredOrderIsTopological ==
    \A s \in DOMAIN graphs :
        /\ {graphs[s].execution_order[i] : i \in DOMAIN graphs[s].execution_order}
               = NodeIds(graphs[s])
        /\ Len(graphs[s].execution_order) = Len(graphs[s].nodes)
        /\ TopologicalList(graphs[s], graphs[s].execution_order)

\* C10: update_parameter checks the new value against the declared type and
\* the [min, max] bounds of the parameter before it writes: a value of the
\* wrong type is refused with TypeMismatch, a number outside the bounds with
\* OutOfBounds, and the parameter keeps its value.
C10_UpdateParameterValidates ==
    [][\A s \in SessionIds, name \in ParameterNames, v \in NewValues :
          (/\ UpdateParameterValueStep(s, name, v)
           /\ validate_parameter_value(M, s, name, v).error \in {"TypeMismatch", "OutOfBounds"})
          => /\ ~ret'.ok
             /\ ret'.out.error = validate_parameter_value(M, s, name, v).error
             /\ graphs'[s].nodes = graphs[s].nodes]_vars

\* the operation-to-parameter dependency edges of a list of nodes, by name
ParameterEdges(nodes) ==
    {<<nodes[q[1]].name, nodes[q[2]].name>> :
        q \in {r \in (DOMAIN nodes) \X (DOMAIN nodes) :
                  /\ nodes[r[1]].node_type = "operation"
                  /\ nodes[r[2]].node_type = "parameter"
                  /\ nodes[r[2]].id \in nodes[r[1]].dependencies}}

\* what a snapshot says about a graph, node identifiers left aside: the
\* parameters, the operations, and the edges from operations to parameters
SnapshotView(nodes, parameters, operations) ==
    [parameters |-> {[name |-> parameters[i].name, value |-> parameters[i].value,
                      type |-> parameters[i].type, units |-> parameters[i].units] :
                        i \in DOMAIN parameters},
     operations |-> {[name |-> operations[i].name, type |-> operations[i].type,
                      code |-> operations[i].code, inputs |-> operations[i].inputs] :
                        i \in DOMAIN operations},
     edges |-> ParameterEdges(nodes)]

\* the snapshot of session s in the state a step leads to
SnapshotAfter(s) ==
    LET state == get_graph_state([g |-> graphs', vh |-> version_history',
                                  id |-> nextId', clock |-> clock'], s).state
    IN SnapshotView(state.nodes, state.parameters, state.operations)

\* C5: a rollback to a checkpoint restores what the checkpoint recorded: the
\* snapshot taken right after the rollback has the same parameters (names,
\* values, types, units), the same operations (names, kinds, scripts,
\* inputs) and the same operation-to-parameter edges as the checkpoint.
C5_RollbackRestoresCheckpoint ==
    [][\A s \in SessionIds, checkpoint_id \in 1..clock :
          (/\ RollbackToVersionStep(s, checkpoint_id)
           /\ rollback_to_version(M, s, checkpoint_id).success)
          => LET checkpoint == version_history[s][find_checkpoint(M, s, checkpoint_id)].data
             IN SnapshotAfter(s) =
                    SnapshotView(checkpoint.pig_state.nodes, checkpoint.parameters,
                                 checkpoint.operations)]_vars

\* no node of the graph reaches itself along dependencies edges
Acyclic(pig) ==
    \A id \in NodeIds(pig) :
        id \notin dependencies_closure(pig, NodeOf(pig, id).dependencies \cap NodeIds(pig))

\* C7: the dependency graph of every session is acyclic, whatever the
\* operations that built it.
C7_GraphIsAcyclic == \A s \in DOMAIN graphs : Acyclic(graphs[s])

\* a graph that went through a direct edit and holds a chain of two
\* dependency edges
C7_Witness ==
    \E s \in DOMAIN graphs :
        /\ \E i \in DOMAIN version_history[s] : version_history[s][i].type = "direct_edit"
        /\ \E a, b \in NodeIds(graphs[s]) :
              /\ b \in NodeOf(graphs[s], a).dependencies
              /\ NodeOf(graphs[s], b).dependencies # {}

\* C9: root_nodes is exactly the set of the nodes without dependencies.
C9_RootsAreDependencyFree ==
    \A s \in DOMAIN graphs :
        graphs[s].root_nodes =
            {id \in NodeIds(graphs[s]) : NodeOf(graphs[s], id).dependencies = {}}

\* a graph that was loaded from a saved generation, where a node has a
\* dependency and another is a root
C9_Witness ==
    \E s \in DOMAIN graphs :
        /\ \E i \in DOMAIN version_history[s] : version_history[s][i].type = "load_previous"
        /\ \E id \in NodeIds(graphs[s]) : NodeOf(graphs[s], id).dependencies # {}
        /\ graphs[s].root_nodes # {}

\* C1: a process_user_input call made while an earlier one has not returned
\* is answered Busy and the earlier one goes on alone: the rejected call
\* appends nothing to the conversation and changes neither the graph nor the
\* committed model, and never more than one call is in flight.
C1_BusyGuard ==
    [][/\ \A arg \in SessionIds \cup {""}, u \in Utterances :
              (SubmitTurnStep(arg, u) /\ calls # <<>>)
              => /\ ret'.op = "turn"
                 /\ ret'.out.status = "busy"
                 /\ UNCHANGED <<sessions, graphs, version_history, model_states, session_codes, calls>>
       /\ Cardinality(DOMAIN calls') <= 1]_vars

\* a call was answered Busy while the first one is suspended
C1_Witness ==
    /\ ret.op = "turn"
    /\ ret.out.status = "busy"
    /\ \E c \in DOMAIN calls : c < ret.out.call /\ calls[c].sid = ret.sid

\* C2: a turn whose execution ends in error leaves the nodes, the edges and
\* the parameter values of the graph as they were: the plan is merged only
\* when the final result is a success.
C2_FailedTurnLeavesGraph ==
    [][(ret'.op = "turn" /\ ret'.out.status = "execution_error")
       => graphs'[ret'.sid].nodes = graphs[ret'.sid].nodes]_vars

\* C3: in one turn the planner is asked for a corrected plan at most twice
\* and the executor runs at most three times; no call stays in flight after
\* a successful run; a turn that fails answers with the error of its last
\* run.
C3_BoundedSelfCorrection ==
    /\ \A c \in DOMAIN calls :
          /\ calls[c].corrections <= 2
          /\ calls[c].runs <= 3
          /\ calls[c].result.status # "success"
    /\ (ret.op = "turn" /\ ret.out.status \in {"executed", "execution_error"})
       => /\ ret.out.corrections <= 2
          /\ ret.out.runs <= 3
          /\ ret.out.runs = ret.out.corrections + 1
             \/ (ret.out.status = "execution_error" /\ ret.out.runs = ret.out.corrections)
          /\ ret.out.status = "execution_error" => ret.out.error_message = ret.out.runs
          /\ ret.out.status = "executed" => ret.out.error_message = 0

\* a turn that failed after three runs and two corrections
C3_Witness ==
    /\ ret.op = "turn"
    /\ ret.out.status = "execution_error"
    /\ ret.out.runs = 3
    /\ ret.out.corrections = 2
    /\ ret.out.error_message = 3

\* C6: while a call is in flight on a session, only the steps of that call
\* change the session's graph or version history.
C6_SingleFlightMutation ==
    [][\A s \in SessionIds :
          (/\ \E c \in DOMAIN calls : calls[c].sid = s
           /\ ret'.op # "await"
           /\ ~(ret'.op = "turn" /\ ret'.out.call \in DOMAIN calls))
          => /\ graphs'[s] = graphs[s]
             /\ version_history'[s] = version_history[s]]_vars

\* the version history of session s, empty when the manager has none
HistoryOf(s) == IF s \in DOMAIN version_history THEN version_history[s] ELSE <<>>

\* C11: a direct edit that fails (unknown operation id, a node that is not
\* an operation, a script that fails validation) leaves the nodes of the
\* graph (scripts and parameters) and the version history as they were.
C11_FailedDirectEditLeavesNoTrace ==
    [][\A s \in SessionIds, new_code \in Scripts, status \in ExecStatuses :
          \A operation_id \in NodeIds(GraphOf(s)) \cup {nextId} :
              \A names \in Orders(detect_parameters_in_code(new_code)) :
                  (/\ DirectEditStep(s, operation_id, new_code, names, status)
                   /\ ~enable_direct_code_editing(create_version_checkpoint(M, s).m, s,
                                                  operation_id, new_code, names).success)
                  => /\ graphs'[s].nodes = GraphOf(s).nodes
                     /\ version_history'[s] = HistoryOf(s)]_vars

\* the graph has a parameter of this name, letter case aside
HasParameter(pig, name) ==
    \E i \in DOMAIN pig.nodes :
        /\ pig.nodes[i].node_type = "parameter"
        /\ Lower(pig.nodes[i].name) = Lower(name)

\* the session a process_user_input call with this argument works on
TurnSession(arg) == IF arg = "" THEN current_session_id ELSE arg

\* an accepted turn that is a modification naming a parameter of the graph
\* goes to update_parameter and the re-execution, not to the planner
FastPathTaken ==
    \A arg \in SessionIds \cup {""}, u \in Utterances :
        (/\ SubmitTurnStep(arg, u)
         /\ ~is_processing
         /\ CanAddMessage(TurnSession(arg))
         /\ u.intention = "modification"
         /\ u.param_match.found
         /\ HasParameter(GraphOf(TurnSession(arg)), u.param_match.param_name))
        => /\ nextCall \in DOMAIN calls'
           /\ calls'[nextCall].pc = "execute_pig_nodes"
           /\ \E i \in DOMAIN graphs'[TurnSession(arg)].nodes :
                 /\ Lower(graphs'[TurnSession(arg)].nodes[i].name)
                        = Lower(u.param_match.param_name)
                 /\ graphs'[TurnSession(arg)].nodes[i].value = u.param_match.new_value

\* C12 as stated: a turn on the fast path is answered from the re-execution
\* and never reaches the planner.
C12_FastPathNeverPlans ==
    [][/\ FastPathTaken
       /\ \A c \in DOMAIN calls, status \in ExecStatuses :
             FastPathReturnsStep(c, status)
             => /\ c \notin DOMAIN calls'
                /\ ret'.op = "turn"
                /\ ret'.out.status = "fast_path"]_vars

\* C12, amended: a turn on the fast path is answered from the re-execution,
\* with the model committed and no planner call, when the re-execution
\* succeeds; when it fails the turn goes on to the planner.
C12_FastPathUnlessExecutionFails ==
    [][/\ FastPathTaken
       /\ \A c \in DOMAIN calls, status \in ExecStatuses :
             FastPathReturnsStep(c, status)
             => IF status = "success"
                THEN /\ c \notin DOMAIN calls'
                     /\ ret'.op = "turn"
                     /\ ret'.out.status = "fast_path"
                     /\ model_states'[calls[c].sid] = calls[c].script
                     /\ graphs' = graphs
                ELSE /\ c \in DOMAIN calls'
                     /\ calls'[c].pc = "generate_plan"]_vars

\* a turn answered on the fast path, with an operation re-executed
C12_Witness ==
    /\ ret.op = "turn"
    /\ ret.out.status = "fast_path"
    /\ model_states[ret.sid].script = "pig_update"
    /\ Len(model_states[ret.sid].operations) > 0

\* C13: when the planner's answer asks for clarification the turn replies
\* with the questions and ends in that step: the call is never handed to the
\* executor, and the graphs and the committed model stay as they were, also
\* when the answer carries an execution plan.
C13_ClarificationStopsTheTurn ==
    [][\A c \in DOMAIN calls, llm_response \in LLMResponses :
          (PlannerReturnsStep(c, llm_response) /\ llm_response.requires_clarification)
          => /\ c \notin DOMAIN calls'
             /\ ~is_processing'
             /\ ret'.op = "turn"
             /\ ret'.out.status = "clarification"
             /\ graphs' = graphs
             /\ version_history' = version_history
             /\ model_states' = model_states
             /\ Len(sessions'[calls[c].sid]) = Len(sessions[calls[c].sid]) + 1]_vars

\* a turn answered with questions although the planner also sent a plan:
\* the graph holds nothing of the plan and no model is committed
C13_Witness ==
    /\ ret.op = "turn"
    /\ ret.out.status = "clarification"
    /\ NodeIds(GraphOf(ret.sid)) = {}
    /\ model_states[ret.sid] = NoModel

\* the operation nodes of a graph
OperationNodes(pig) ==
    {pig.nodes[i] : i \in {j \in DOMAIN pig.nodes : pig.nodes[j].node_type = "operation"}}

\* every reference by name of an operation to a parameter of the graph is
\* matched by a dependency edge to a parameter node of that name
NamedReferencesHaveEdges(pig) ==
    \A n \in OperationNodes(pig) :
        \A i \in DOMAIN n.inputs :
            (n.inputs[i].ref.name # "" /\ HasParameter(pig, n.inputs[i].ref.name))
            => \E d \in n.dependencies :
                  /\ NodeOf(pig, d).node_type = "parameter"
                  /\ Lower(NodeOf(pig, d).name) = Lower(n.inputs[i].ref.name)

\* C14: when a turn ends with its plan executed and absorbed, the graph has
\* an operation node and every operation that names a parameter has an edge
\* to it, for a plan with a script as for a plan with an AST.
C14_AbsorbedPlanHasOperation ==
    [][\A c \in DOMAIN calls :
          (/\ c \notin DOMAIN calls'
           /\ ret'.op = "turn"
           /\ ret'.out.status = "executed")
          => /\ OperationNodes(graphs'[calls[c].sid]) # {}
             /\ NamedReferencesHaveEdges(graphs'[calls[c].sid])]_vars

\* C15: no two parameter nodes of one graph have the same name, letter case
\* aside (adding a name that exists rebinds the node instead of adding one).
C15_ParameterNamesUnique ==
    \A s \in DOMAIN graphs :
        \A i, j \in DOMAIN graphs[s].nodes :
            (/\ graphs[s].nodes[i].node_type = "parameter"
             /\ graphs[s].nodes[j].node_type = "parameter"
             /\ Lower(graphs[s].nodes[i].name) = Lower(graphs[s].nodes[j].name))
            => i = j

-----------------------------------------------------------------------------
(* pig_models.py: the graph class used on its own.                         *)

\* the nodes a caller of the graph class adds
NodeKinds == {"parameter", "operation"}
NewNode(kind, id) ==
    IF kind = "parameter"
    THEN ParameterNode(id, "p", IntV(1), "numeric", None, None, "")
    ELSE OperationNode(id, "op", "box", NoCode, <<>>)

\* the graph of session s replaced by pig, the rest of the state as it was
GraphStep(s, pig, id, result) ==
    /\ graphs' = Override(graphs, s, pig)
    /\ nextId' = id
    /\ ret' = result
    /\ UNCHANGED <<version_history, sessions, model_states, session_codes, is_processing,
                   current_session_id, calls, clock, nextCall>>

\* ParametricIntentionGraph.add_node
PigAddNodeStep(s, kind) ==
    /\ IdsLeft(1)
    /\ GraphStep(s, add_node(GraphOf(s), NewNode(kind, nextId)), nextId + 1,
                 Ret("add_node", s, TRUE, [node_id |-> nextId]))

PigAddNode == \E s \in SessionIds, kind \in NodeKinds : PigAddNodeStep(s, kind)

\* ParametricIntentionGraph.add_dependency: returns None and never raises
PigAddDependencyStep(s, dependent_id, dependency_id) ==
    GraphStep(s, add_dependency(GraphOf(s), dependent_id, dependency_id), nextId,
              Ret("add_dependency", s, TRUE,
                  [dependent_id |-> dependent_id, dependency_id |-> dependency_id]))

PigAddDependency ==
    \E s \in SessionIds, dependent_id, dependency_id \in 1..MaxIds :
        PigAddDependencyStep(s, dependent_id, dependency_id)

\* ParametricIntentionGraph.get_execution_order: raises ValueError on a cycle
\* (KeyError on a dependency that is no node) before the order is stored
PigGetExecutionOrderStep(s) ==
    LET r == execution_order_result(GraphOf(s))
    IN GraphStep(s, get_execution_order(GraphOf(s)), nextId,
                 Ret("get_execution_order", s, ~r.err, <<>>))

PigGetExecutionOrder == \E s \in SessionIds : PigGetExecutionOrderStep(s)

NextPig ==
    \/ PigAddNode
    \/ PigAddDependency
    \/ PigGetExecutionOrder

SpecPig == Init /\ [][NextPig]_vars

\* C16: add_dependency refuses an edge that would close a cycle (a node
\* depending on itself included) and leaves the graph as it was, so that
\* get_execution_order never is the place where a cycle shows.
C16_CyclicEdgeRejected ==
    [][\A s \in SessionIds :
          /\ \A dependent_id, dependency_id \in NodeIds(GraphOf(s)) :
                (/\ PigAddDependencyStep(s, dependent_id, dependency_id)
                 /\ dependent_id \in dependencies_closure(GraphOf(s), {dependency_id}))
                => /\ ~ret'.ok
                   /\ graphs'[s] = GraphOf(s)
          /\ PigGetExecutionOrderStep(s) => ret'.ok]_vars

\* the step appended one checkpoint entry to the history of s, and the
\* entry records the graph of s as it was before the step
BackupAppended(s) ==
    /\ Len(version_history'[s]) = Len(version_history[s]) + 1
    /\ SubSeq(version_history'[s], 1, Len(version_history[s])) = version_history[s]
    /\ LET entry == version_history'[s][Len(version_history'[s])]
       IN /\ entry.type = "checkpoint"
          /\ entry.data.pig_state.nodes = graphs[s].nodes
          /\ entry.data.pig_state.root_nodes = graphs[s].root_nodes
          /\ entry.data.parameters = extract_parameters(graphs[s])
          /\ entry.data.operations = extract_operations(graphs[s])

\* after the step the graph of s is what the checkpoint recorded
TargetRestored(s, checkpoint_id) ==
    LET checkpoint == version_history[s][find_checkpoint(M, s, checkpoint_id)].data
    IN SnapshotAfter(s) = SnapshotView(checkpoint.pig_state.nodes, checkpoint.parameters,
                                       checkpoint.operations)

\* C17: a rollback to an existing checkpoint appends exactly one checkpoint
\* entry holding the graph as it was before the rollback, and the graph then
\* is the one of the target checkpoint; a rollback to an id that matches no
\* checkpoint fails and leaves the graph and the version history unchanged.
C17_RollbackBacksUpThenRestores ==
    [][\A s \in SessionIds, checkpoint_id \in 1..clock :
          RollbackToVersionStep(s, checkpoint_id)
          => IF s \in DOMAIN version_history /\ find_checkpoint(M, s, checkpoint_id) # 0
             THEN /\ ret'.ok
                  /\ BackupAppended(s)
                  /\ TargetRestored(s, checkpoint_id)
             ELSE /\ ~ret'.ok
                  /\ graphs' = graphs
                  /\ version_history' = version_history]_vars

-----------------------------------------------------------------------------
(* A long version history: checkpoints and loads only, up to MaxLog entries. *)

\* the entries of a kind in the history of session s
EntriesOfType(s, type) ==
    {i \in DOMAIN HistoryOf(s) : HistoryOf(s)[i].type = type}

\* PIGManager.create_version_checkpoint, while the log may grow
LogCheckpointStep(s) ==
    /\ HistoryLen(s) < MaxLog
    /\ ManagerStep(create_version_checkpoint(M, s).m, Ret("checkpoint", s, TRUE, <<>>))

LogCheckpoint == \E s \in SessionIds : LogCheckpointStep(s)

\* PIGManager.load_previous_generation of a saved file, while the log may grow
LogLoadStep(s) ==
    /\ HistoryLen(s) < MaxLog
    /\ Cardinality(EntriesOfType(s, "load_previous")) < MaxLoads
    /\ ManagerStep(load_previous_generation(M, s, SavedFile).m,
                   Ret("load_previous", s, TRUE, <<>>))

LogLoad == \E s \in SessionIds : LogLoadStep(s)

NextLog ==
    \/ LogCheckpoint
    \/ LogLoad

SpecLog == Init /\ [][NextLog]_vars

\* C18: the version history of a session never holds more than 100 entries.
C18_HistoryCapped ==
    \A s \in DOMAIN version_history : Len(version_history[s]) <= HistoryCap

\* new holds the entries of old, in their order, before anything else; the
\* oldest entries of old may be missing only when new is at the cap
ExtendsLog(old, new) ==
    \E k \in 0..Len(old) :
        /\ k > 0 => Len(new) = HistoryCap
        /\ Len(new) >= Len(old) - k
        /\ SubSeq(new, 1, Len(old) - k) = SubSeq(old, k + 1, Len(old))

\* C19: the version history is append-only and keeps the order of arrival:
\* every step leaves the entries of each session where they were and puts
\* new entries after them; entries go away only from the old end, at the cap.
C19_HistoryAppendOnly ==
    [][\A s \in DOMAIN version_history :
          /\ s \in DOMAIN version_history'
          /\ ExtendsLog(version_history[s], version_history'[s])]_vars

\* a history that a checkpoint and then a direct edit or a load extended
C19_Witness ==
    \E s \in DOMAIN version_history :
        /\ Len(version_history[s]) = 2
        /\ version_history[s][1].type = "checkpoint"
        /\ version_history[s][2].type \in {"direct_edit", "load_previous"}

-----------------------------------------------------------------------------
(* Batch updates of the parameters of a graph under construction.          *)

NextBatch ==
    \/ AddParameter
    \/ AddOperation
    \/ EnhancedParameterUpdate

SpecBatch == Init /\ [][NextBatch]_vars

\* the names of the updates that succeeded, in the order of the batch
SucceededNames(update_results) ==
    LET done == SelectSeq(update_results, LAMBDA r : r.success)
    IN [i \in DOMAIN done |-> done[i].name]

\* C20: a batch update reports each parameter's outcome, reports the batch
\* as successful exactly when at least one parameter was updated, and lists
\* as updated the parameters that were updated and no other.
C20_BatchSuccessIffSomeUpdate ==
    [][\A s \in SessionIds, parameter_updates \in UpdateChoices :
          EnhancedParameterUpdateStep(s, parameter_updates)
          => /\ Len(ret'.out.update_results) = Len(parameter_updates)
             /\ ret'.ok <=> (\E i \in DOMAIN ret'.out.update_results :
                                ret'.out.update_results[i].success)
             /\ ret'.out.updated_parameters = SucceededNames(ret'.out.update_results)]_vars

\* C21: a batch update first appends a checkpoint of the graph as it was,
\* then applies the updates one by one: an update that fails validation
\* leaves its parameter as it was, and every update that passes is applied,
\* wherever it stands in the batch.
C21_BatchCheckpointsThenUpdatesEach ==
    [][\A s \in SessionIds, parameter_updates \in UpdateChoices :
          EnhancedParameterUpdateStep(s, parameter_updates)
          => LET pig == GraphOf(s)
                 old == HistoryOf(s)
                 new == version_history'[s]
                 res == ret'.out.update_results
             IN /\ Len(new) = Len(old) + 2
                /\ SubSeq(new, 1, Len(old)) = old
                /\ new[Len(old) + 1].type = "checkpoint"
                /\ new[Len(old) + 1].data.pig_state.nodes = pig.nodes
                /\ new[Len(old) + 2].type = "parameter_update"
                /\ Len(res) = Len(parameter_updates)
                /\ \A i \in DOMAIN parameter_updates :
                      LET u == parameter_updates[i]
                          id == find_parameter_by_name(pig, u.name)
                      IN IF validate_parameter_value(M, s, u.name, u.value).is_valid
                         THEN /\ res[i].success
                              /\ NodeOf(graphs'[s], id).value = u.value
                         ELSE /\ ~res[i].success
                              /\ id # NoId =>
                                    NodeOf(graphs'[s], id).value = NodeOf(pig, id).value]_vars

\* a batch whose first update failed and whose second update was applied
C21_Witness ==
    /\ ret.op = "batch_update"
    /\ Len(ret.out.update_results) = 2
    /\ ~ret.out.update_results[1].success
    /\ ret.out.update_results[1].error = "OutOfBounds"
    /\ ret.out.update_results[2].success
    /\ \E i \in DOMAIN graphs[ret.sid].nodes : graphs[ret.sid].nodes[i].value = StrV("x")

-----------------------------------------------------------------------------
(* edit_manager.py: validate_edit.                                         *)

\* the loop of validate_edit over parameter_updates: acc = [m, results]
RECURSIVE validate_parameters(_, _, _)
validate_parameters(acc, s, updates) ==
    IF updates = <<>> THEN acc
    ELSE CHOOSE next \in
             {validate_parameters(
                  [m |-> v.m,
                   results |-> Append(acc.results,
                                      [type |-> "parameter", name |-> updates[1].name,
                                       is_valid |-> v.is_valid])],
                  s, Tail(updates)) :
                 v \in {validate_parameter_value(acc.m, s, updates[1].name,
                                                 updates[1].value)}} : TRUE

\* EditManager.validate_edit: [m, is_valid, validation_results]; an empty
\* script and an empty dict of updates are skipped
validate_edit(m, s, edited_code, parameter_updates) ==
    LET code_results ==
            IF IsBlank(edited_code) THEN <<>>
            ELSE <<[type |-> "code", name |-> "",
                    is_valid |-> validate_cadquery_code(edited_code)]>>
        done == validate_parameters([m |-> m, results |-> code_results], s, parameter_updates)
    IN [m |-> done.m,
        is_valid |-> \A i \in DOMAIN done.results : done.results[i].is_valid,
        validation_results |-> done.results]

\* POST /api/edit/validate
ValidateEditStep(s, edited_code, parameter_updates) ==
    LET v == validate_edit(M, s, edited_code, parameter_updates)
    IN ManagerStep(v.m, Ret("validate_edit", s, TRUE,
                            [is_valid |-> v.is_valid,
                             validation_results |-> v.validation_results]))

ValidateEdit ==
    \E s \in SessionIds, edited_code \in Scripts,
       parameter_updates \in UpdateChoices \cup {<<>>} :
        ValidateEditStep(s, edited_code, parameter_updates)

NextValidate ==
    \/ AddParameter
    \/ ValidateEdit

SpecValidate == Init /\ [][NextValidate]_vars

\* C22: validate_edit changes no state: the sessions that have a graph, the
\* graphs and the version histories are the same after the call as before,
\* for a session that was started and for one that was not.
C22_ValidateEditMutatesNothing ==
    [][\A s \in SessionIds, edited_code \in Scripts,
          parameter_updates \in UpdateChoices \cup {<<>>} :
          ValidateEditStep(s, edited_code, parameter_updates)
          => /\ graphs' = graphs
             /\ version_history' = version_history]_vars

-----------------------------------------------------------------------------
(* Two sessions on the one orchestrator of main.py.                        *)

\* two uuid4 session ids that begin with the same eight characters
TwoSessions == {"0a1b2c3d-1", "0a1b2c3d-2"}

StartEither == \E s \in TwoSessions : start_session(s)

SubmitTurnEither ==
    \E arg \in TwoSessions, u \in Utterances : SubmitTurnStep(arg, u)

NextSessions ==
    \/ StartEither
    \/ SubmitTurnEither
    \/ FastPathReturns
    \/ PlannerReturns
    \/ ExecutorReturns
    \/ CorrectionReturns

SpecSessions == Init /\ [][NextSessions]_vars

\* C23: a turn submitted on a session is answered busy only when a turn of
\* that same session is in progress; a turn in progress on another session
\* does not get it rejected.
C23_BusyOnlyForSameSession ==
    [][\A arg \in TwoSessions, u \in Utterances :
          (/\ SubmitTurnStep(arg, u)
           /\ \A c \in DOMAIN calls : calls[c].sid # arg)
          => ~(ret'.op = "turn" /\ ret'.out.status = "busy")]_vars

-----------------------------------------------------------------------------
(* The generated_codes directory, as far as the state tells: the executor  *)
(* saves the script of every run under a name that holds session_id[:8],   *)
(* so the script of a session's committed model is in the directory.       *)

\* session_id[:8]
sid8(s) == IF s \in TwoSessions THEN "0a1b2c3d" ELSE s

\* _save_generated_code: the file of the run that produced the committed model of t
GeneratedFilesOf(t) ==
    IF t \in DOMAIN model_states /\ Len(model_states[t].operations) > 0
    THEN {[found |-> TRUE, sid |-> t, parameters |-> model_states[t].parameters,
           cadquery_code |-> model_states[t].operations[1]]}
    ELSE {}

\* _get_latest_generated_file: the files whose name holds session_id[:8];
\* which of them is the newest the state does not tell
LatestGeneratedFiles(s) ==
    LET session_files == {file \in UNION {GeneratedFilesOf(t) : t \in TwoSessions} :
                             sid8(s) = sid8(file.sid)}
    IN IF session_files = {} THEN {NoFile} ELSE session_files

\* load_for_editing without a file path
LoadLatest ==
    \E s \in TwoSessions : \E file \in LatestGeneratedFiles(s) : LoadPreviousStep(s, file)

NextIsolation ==
    \/ StartEither
    \/ SubmitTurnEither
    \/ FastPathReturns
    \/ PlannerReturns
    \/ ExecutorReturns
    \/ CorrectionReturns
    \/ LoadLatest

SpecIsolation == Init /\ [][NextIsolation]_vars

\* what the managers hold for session b
SessionData(b, g, vh, dialog, states) ==
    <<IF b \in DOMAIN g THEN <<g[b]>> ELSE <<>>,
      IF b \in DOMAIN vh THEN <<vh[b]>> ELSE <<>>,
      IF b \in DOMAIN dialog THEN <<dialog[b]>> ELSE <<>>,
      IF b \in DOMAIN states THEN <<states[b]>> ELSE <<>> >>

\* C24: an operation invoked for one session leaves the graph, the version
\* history, the conversation and the committed model of the other session
\* as they were, and a load without a path reads a file of its own session.
C24_SessionsIsolated ==
    [][/\ \A b \in TwoSessions :
             b # ret'.sid
             => SessionData(b, graphs', version_history', sessions', model_states')
                    = SessionData(b, graphs, version_history, sessions, model_states)
       /\ \A s \in TwoSessions :
             \A file \in LatestGeneratedFiles(s) :
                 (LoadPreviousStep(s, file) /\ file.found) => file.sid = s]_vars

\* the messages of the turns in a conversation (the edit handlers' messages
\* carry no call)
TurnMessages(conversation) == SelectSeq(conversation, LAMBDA msg : msg.call # 0)

\* the messages of call c in a conversation
MessagesOfCall(conversation, c) == SelectSeq(conversation, LAMBDA msg : msg.call = c)

\* C25: within a session the messages stand in arrival order: the messages
\* of an earlier turn all precede those of a later turn, and an accepted
\* turn has its user message first and then, once it has returned on
\* whatever path, exactly one response.
C25_MessagesInArrivalOrder ==
    \A s \in DOMAIN sessions :
        LET turns == TurnMessages(sessions[s])
        IN /\ \A i, j \in DOMAIN turns : i < j => turns[i].call <= turns[j].call
           /\ \A c \in 1..(nextCall - 1) :
                 LET mine == MessagesOfCall(sessions[s], c)
                 IN \/ mine = <<>>
                    \/ /\ mine[1].message_type = "user_input"
                       /\ IF c \in DOMAIN calls
                          THEN Len(mine) = 1
                          ELSE /\ Len(mine) = 2
                               /\ mine[2].message_type \in {"system_response", "error"}

\* two turns of one session, the first answered with an error after its
\* corrections and the second answered on the fast path or by a plan
C25_Witness ==
    \E s \in DOMAIN sessions :
        /\ Len(TurnMessages(sessions[s])) = 4
        /\ calls = <<>>
        /\ TurnMessages(sessions[s])[2].message_type = "error"
        /\ TurnMessages(sessions[s])[4].message_type = "system_response"

----------------------------------------------------------------------------
(* planning_module.py: the JSON salvage of _clean_json_response.  A text   *)
(* is a sequence of tokens: the braces, "k" for a key with its colon, "v"  *)
(* for a scalar, ",", "p" for a word of prose, "f" for a fence of three    *)
(* backquotes, "j" for the tag json after a fence, "n" for a newline and    *)
(* " " for a blank.                                                        *)

\* the deepest nesting of the JSON bodies tried
MaxDepth == 3

IsWs(c) == c \in {"n", " "}

\* the first position from i on that holds no whitespace (Len + 1 if none)
FirstNonWs(t, i) ==
    CHOOSE j \in i..(Len(t) + 1) :
        /\ j = Len(t) + 1 \/ ~IsWs(t[j])
        /\ \A k \in i..(j - 1) : IsWs(t[k])

\* str.strip()
strip(t) ==
    LET inked == {i \in DOMAIN t : ~IsWs(t[i])}
    IN IF inked = {} THEN <<>>
       ELSE SubSeq(t, CHOOSE a \in inked : \A i \in inked : a <= i,
                      CHOOSE b \in inked : \A i \in inked : i <= b)

\* ^ and $ under re.MULTILINE, as positions between tokens
LineStart(t, i) == i = 1 \/ t[i - 1] = "n"
LineEnd(t, i) == i = Len(t) + 1 \/ t[i] = "n"

\* json.loads accepts the text: a scalar or an object of members, whitespace apart
RECURSIVE ParseValue(_, _), ParseMembers(_, _)
ParseValue(t, i) ==
    IF i > Len(t) THEN 0
    ELSE IF t[i] = "v" THEN i + 1
    ELSE IF t[i] = "{"
    THEN IF i + 1 <= Len(t) /\ t[i + 1] = "}" THEN i + 2 ELSE ParseMembers(t, i + 1)
    ELSE 0
ParseMembers(t, i) ==
    IF i <= Len(t) /\ t[i] = "k"
    THEN LET j == ParseValue(t, i + 1)
         IN IF j = 0 \/ j > Len(t) THEN 0
            ELSE IF t[j] = "}" THEN j + 1
            ELSE IF t[j] = "," THEN ParseMembers(t, j + 1)
            ELSE 0
    ELSE 0

json_loads_ok(t) ==
    LET u == SelectSeq(t, LAMBDA c : ~IsWs(c))
    IN u # <<>> /\ ParseValue(u, 1) = Len(u) + 1

\* the first re.sub: at a line start, a fence, the tag json if any, and the
\* whitespace after it
RECURSIVE remove_opening_fences(_, _)
remove_opening_fences(t, i) ==
    IF i > Len(t) THEN <<>>
    ELSE IF LineStart(t, i) /\ t[i] = "f"
    THEN LET j == IF i + 1 <= Len(t) /\ t[i + 1] = "j" THEN i + 2 ELSE i + 1
         IN remove_opening_fences(t, FirstNonWs(t, j))
    ELSE <<t[i]>> \o remove_opening_fences(t, i + 1)

\* where a match of the closing-fence pattern (whitespace, a fence,
\* whitespace, a line end) that starts at i ends (the position
\* after it), or 0: the whitespace after the fence is given back up to a
\* line end
closing_fence_end(t, i) ==
    LET w == FirstNonWs(t, i)
    IN IF w > Len(t) \/ t[w] # "f" THEN 0
       ELSE LET y == FirstNonWs(t, w + 1)
                ends == {e \in (w + 1)..y : LineEnd(t, e)}
            IN IF ends = {} THEN 0
               ELSE CHOOSE e \in ends : \A x \in ends : x <= e

\* the second re.sub: the fences that end a line, with the whitespace before them
RECURSIVE remove_closing_fences(_, _)
remove_closing_fences(t, i) ==
    IF i > Len(t) THEN <<>>
    ELSE LET e == closing_fence_end(t, i)
         IN IF e # 0 THEN remove_closing_fences(t, e)
            ELSE <<t[i]>> \o remove_closing_fences(t, i + 1)

\* re.findall of the first pattern, under DOTALL and MULTILINE: from
\* the first brace that opens a line to the last closing brace that ends
\* one; at most one match
whole_text_matches(t) ==
    LET opens == {a \in DOMAIN t :
                     /\ t[a] = "{"
                     /\ \E i \in 1..a : LineStart(t, i) /\ \A k \in i..(a - 1) : IsWs(t[k])}
        closes == {b \in DOMAIN t :
                     /\ t[b] = "}"
                     /\ \E e \in (b + 1)..(Len(t) + 1) :
                            LineEnd(t, e) /\ \A k \in (b + 1)..(e - 1) : IsWs(t[k])}
        starts == {a \in opens : \E b \in closes : a < b}
    IN IF starts = {} THEN <<>>
       ELSE LET a == CHOOSE x \in starts : \A y \in starts : x <= y
                b == CHOOSE x \in closes : \A y \in closes : y <= x
            IN <<SubSeq(t, a, b)>>

\* where a match of the second pattern that is past its
\* opening brace ends, or 0: objects may nest one level deep
RECURSIVE shallow_object_end(_, _, _)
shallow_object_end(t, j, inner) ==
    IF j > Len(t) THEN 0
    ELSE IF t[j] = "{" THEN (IF inner THEN 0 ELSE shallow_object_end(t, j + 1, TRUE))
    ELSE IF t[j] = "}" THEN (IF inner THEN shallow_object_end(t, j + 1, FALSE) ELSE j)
    ELSE shallow_object_end(t, j + 1, inner)

\* re.findall of the second pattern, and of the third, which matches the same texts
RECURSIVE shallow_object_matches(_, _)
shallow_object_matches(t, i) ==
    IF i > Len(t) THEN <<>>
    ELSE LET e == IF t[i] = "{" THEN shallow_object_end(t, i + 1, FALSE) ELSE 0
         IN IF e # 0 THEN <<SubSeq(t, i, e)>> \o shallow_object_matches(t, e + 1)
            ELSE shallow_object_matches(t, i + 1)

\* max(matches, key=len): the first of the longest
longest(matches) ==
    matches[CHOOSE i \in DOMAIN matches :
                /\ \A j \in DOMAIN matches : Len(matches[j]) <= Len(matches[i])
                /\ \A j \in 1..(i - 1) : Len(matches[j]) < Len(matches[i])]

\* _extract_balanced_json(text): up to the brace that closes the first one
extract_balanced_json(text) ==
    LET t == strip(text)
        opened(i) == Cardinality({k \in 1..i : t[k] = "{"})
        closed(i) == Cardinality({k \in 1..i : t[k] = "}"})
        ends == {i \in DOMAIN t : t[i] = "}" /\ opened(i) = closed(i)}
    IN IF t = <<>> \/ t[1] # "{" \/ ends = {} THEN <<>>
       ELSE SubSeq(t, 1, CHOOSE e \in ends : \A x \in ends : e <= x)

\* the JSON of the fallback
error_json == <<"{", "error", "}">>

\* strategy 4: the balanced text from the first line that opens with a
\* brace and yields valid JSON
line_by_line(t) ==
    LET starts == {i \in DOMAIN t :
                      /\ LineStart(t, i)
                      /\ \E j \in i..Len(t) :
                             t[j] = "{" /\ \A k \in i..(j - 1) : t[k] = " "
                      /\ extract_balanced_json(SubSeq(t, i, Len(t))) # <<>>
                      /\ json_loads_ok(extract_balanced_json(SubSeq(t, i, Len(t))))}
    IN IF starts = {} THEN <<>>
       ELSE extract_balanced_json(
                SubSeq(t, CHOOSE i \in starts : \A x \in starts : i <= x, Len(t)))

\* _clean_json_response(response_text)
clean_json_response(response_text) ==
    IF response_text = <<>> THEN <<"{", "}">>
    ELSE LET stripped == strip(response_text)
             cleaned == remove_closing_fences(remove_opening_fences(stripped, 1), 1)
             whole == whole_text_matches(cleaned)
             shallow == shallow_object_matches(cleaned, 1)
             balanced == extract_balanced_json(cleaned)
             by_line == line_by_line(cleaned)
         IN IF whole # <<>> /\ json_loads_ok(longest(whole)) THEN strip(longest(whole))
            ELSE IF shallow # <<>> /\ json_loads_ok(longest(shallow))
            THEN strip(longest(shallow))
            ELSE IF balanced # <<>> /\ json_loads_ok(balanced) THEN balanced
            ELSE IF by_line # <<>> THEN by_line
            ELSE IF /\ strip(cleaned) # <<>>
                    /\ Head(strip(cleaned)) = "{"
                    /\ strip(cleaned)[Len(strip(cleaned))] = "}"
                    /\ json_loads_ok(cleaned)
            THEN cleaned
            ELSE error_json

\* a JSON body nested d deep
RECURSIVE Nested(_)
Nested(d) ==
    IF d = 1 THEN <<"{", "k", "v", "}">> ELSE <<"{", "k">> \o Nested(d - 1) \o <<"}">>

\* the same body laid out over lines
RECURSIVE NestedLines(_)
NestedLines(d) ==
    IF d = 1 THEN <<"{", "k", "v", "}">>
    ELSE <<"{", "n", " ", "k">> \o NestedLines(d - 1) \o <<"n", "}">>

Bodies ==
    {Nested(d) : d \in 1..MaxDepth} \cup {NestedLines(d) : d \in 2..MaxDepth}
        \cup {<<"{", "}">>, <<"{", "k">> \o Nested(1) \o <<",", "k">> \o Nested(1) \o <<"}">>}

\* what an LLM puts before and after the body: fences and prose
NoiseBefore ==
    {<<>>, <<"f", "j", "n">>, <<"f", "n">>, <<"p", "n">>, <<"p", " ">>,
     <<"p", "n", "f", "j", "n">>, <<"n", " ">>}
NoiseAfter ==
    {<<>>, <<"n", "f">>, <<"n", "f", "n">>, <<"n", "p">>, <<" ", "p">>,
     <<"n", "f", "n", "p">>}

\* a response is at hand: a valid JSON body wrapped in noise
InitSalvage ==
    /\ graphs = <<>>
    /\ version_history = <<>>
    /\ sessions = <<>>
    /\ model_states = <<>>
    /\ session_codes = <<>>
    /\ is_processing = FALSE
    /\ current_session_id = ""
    /\ calls = <<>>
    /\ nextId = 1
    /\ clock = 1
    /\ nextCall = 1
    /\ \E before \in NoiseBefore, body \in Bodies, after \in NoiseAfter :
           ret = Ret("response", "", TRUE,
                     [body |-> body, response_text |-> before \o body \o after])

\* _parse_llm_response cleans the response at hand
CleanJsonResponseStep(response_text) ==
    /\ ret.op = "response"
    /\ response_text = ret.out.response_text
    /\ ret' = Ret("clean_json_response", "", TRUE,
                  [body |-> ret.out.body, response_text |-> response_text,
                   cleaned |-> clean_json_response(response_text)])
    /\ UNCHANGED <<graphs, version_history, sessions, model_states, session_codes, is_processing,
                   current_session_id, calls, nextId, clock, nextCall>>

CleanJsonResponse ==
    \E before \in NoiseBefore, body \in Bodies, after \in NoiseAfter :
        CleanJsonResponseStep(before \o body \o after)

SpecSalvage == InitSalvage /\ [][CleanJsonResponse]_vars

\* C30: whatever fences and prose wrap a valid JSON body, and however deep
\* the body nests, the salvage yields that whole body and no other object.
C30_SalvageYieldsWholeBody ==
    ret.op = "clean_json_response" => ret.out.cleaned = ret.out.body

----------------------------------------------------------------------------
(* planning_module.py: generate_plan with its validation and its           *)
(* auto-correction.  An LLM call either raises (failure, timeout) or       *)
(* answers a text, which _parse_llm_response turns into an LLMResponse or, *)
(* when it is no JSON object, into an error response.                      *)

\* an LLMResponse with its intention_type
PlannerAnswer(intention_type, requires_clarification, execution_plan) ==
    [intention_type |-> intention_type, requires_clarification |-> requires_clarification,
     execution_plan |-> execution_plan,
     clarification_questions |-> IF requires_clarification THEN <<"which size">> ELSE <<>>]

\* the response of the except clause of generate_plan and of _create_error_response
error_response == PlannerAnswer("error", FALSE, NoPlan)

\* a cylinder without its height
PlanCylinderNoHeight ==
    [id |-> "cylinder",
     new_parameters |-> <<[name |-> "radius", value |-> IntV(1)]>>,
     ast_nodes |-> <<[id |-> "n1", node_type |-> "primitive", operation |-> "cylinder",
                      parameters |-> <<[key |-> "radius", value |-> StrV("radius")]>>]>>,
     cadquery_code |-> NoCode]

\* the LLMResponse built from the fallback JSON of _clean_json_response
fallback_response ==
    [PlannerAnswer("error", TRUE, NoPlan)
        EXCEPT !.clarification_questions = <<"reformule sua solicitacao">>]

\* answers that hold no JSON: prose, an object that never closes, an empty line
TextsWithoutJson == {<<"p">>, <<"{", "k", "p">>, <<"p", "n", "p">>, <<" ">>}

\* every answer is an error response: a faulty variant of parse_cleaned
parse_cleaned_as_error(cleaned) == error_response

\* _parse_llm_response after the cleaning: the fallback JSON has the required
\* fields; an object of the token alphabet lacks them
parse_cleaned(cleaned) ==
    IF cleaned = error_json THEN fallback_response ELSE error_response

\* what one call of _call_llm can do
LLMOutcomes ==
    {[kind |-> "raised", response |-> error_response],
     [kind |-> "malformed", response |-> error_response]}
        \cup {[kind |-> "text", response |-> error_response, response_text |-> t] :
                 t \in TextsWithoutJson}
        \cup {[kind |-> "parsed", response |-> PlannerAnswer("new_instruction", FALSE, plan)] :
                 plan \in Plans \cup {NoPlan, PlanCylinderNoHeight}}
        \cup {[kind |-> "parsed", response |-> PlannerAnswer("clarification", TRUE, NoPlan)]}

\* _parse_llm_response of the text an LLM call answered
parse_llm_response(outcome) ==
    IF outcome.kind = "malformed" THEN error_response
    ELSE IF outcome.kind = "text"
    THEN parse_cleaned(clean_json_response(outcome.response_text))
    ELSE outcome.response

ASTNodeType == {"primitive", "operation", "parameter", "parameter_ref", "expression"}

\* the errors _validate_execution_plan finds in one node
node_errors(node) ==
    LET keys == {node.parameters[i].key : i \in DOMAIN node.parameters}
    IN (IF node.node_type \notin ASTNodeType THEN {"invalid_node_type"} ELSE {})
       \cup (IF node.node_type = "operation" /\ node.operation = ""
             THEN {"missing_operation"} ELSE {})
       \cup (IF node.operation = "cylinder" /\ {"radius", "height"} \ keys # {}
             THEN {"missing_parameter"} ELSE {})

\* _validate_execution_plan(plan)
validate_execution_plan(plan) ==
    LET errors == UNION {node_errors(plan.ast_nodes[i]) : i \in DOMAIN plan.ast_nodes}
    IN [is_valid |-> errors = {}, errors |-> errors]

\* _auto_correct_plan: the corrected answer as parsed, or the failed response
\* when the call raises
auto_correct_plan(failed_response, correction) ==
    IF correction.kind = "raised" THEN failed_response ELSE parse_llm_response(correction)

\* generate_plan sends its plan to the auto-correction
needs_correction(llm_response) ==
    /\ llm_response.execution_plan # NoPlan
    /\ ~validate_execution_plan(llm_response.execution_plan).is_valid

\* generate_plan(query), given what its LLM call and the call of its
\* auto-correction do
generate_plan(first, correction) ==
    IF first.kind = "raised" THEN error_response
    ELSE LET llm_response == parse_llm_response(first)
         IN IF needs_correction(llm_response)
            THEN auto_correct_plan(llm_response, correction)
            ELSE llm_response

\* _process_with_llm from the await of generate_plan on: the planner runs,
\* then the orchestrator acts on its answer
GeneratePlanStep(c, first, correction) == PlannerReturnsStep(c, generate_plan(first, correction))

GeneratePlan ==
    \E c \in DOMAIN calls, first \in LLMOutcomes, correction \in LLMOutcomes :
        GeneratePlanStep(c, first, correction)

\* turns whose planner is generate_plan itself
NextPlanner ==
    \/ StartSession
    \/ SubmitTurn
    \/ FastPathReturns
    \/ GeneratePlan
    \/ ExecutorReturns
    \/ CorrectionReturns

SpecPlanner == Init /\ [][NextPlanner]_vars

\* C26: a plan that fails validation is never passed to the executor: what
\* generate_plan hands to the executor, the answer of the auto-correction
\* included, passes _validate_execution_plan.
C26_InvalidPlanNeverExecuted ==
    [][\A c \in DOMAIN calls, first \in LLMOutcomes, correction \in LLMOutcomes :
          GeneratePlanStep(c, first, correction) /\ c \in DOMAIN calls'
              => validate_execution_plan(calls'[c].execution_plan).is_valid]_vars

\* one of the LLM calls generate_plan makes raises
llm_call_fails(first, correction) ==
    \/ first.kind = "raised"
    \/ /\ needs_correction(parse_llm_response(first))
       /\ correction.kind = "raised"

\* the turn of call c ends with the planner's text, nothing executed, the
\* graphs as they were and the flag cleared
TurnEndsUnexecuted(c) ==
    /\ c \notin DOMAIN calls'
    /\ ret'.op = "turn" /\ ret'.out.status = "informative"
    /\ graphs' = graphs
    /\ ~is_processing'

\* C27: when an LLM call of the planner fails or times out, generate_plan
\* answers an error-typed response without a plan and the turn ends with
\* that error: no executor run, the PIG unchanged, the next turn accepted.
C27_LLMFailureEndsTurn ==
    [][\A c \in DOMAIN calls, first \in LLMOutcomes, correction \in LLMOutcomes :
          GeneratePlanStep(c, first, correction) /\ llm_call_fails(first, correction)
              => /\ generate_plan(first, correction) = error_response
                 /\ TurnEndsUnexecuted(c)]_vars

\* the session a turn submitted with arg runs on
SessionOfTurn(arg) == IF arg = "" THEN current_session_id ELSE arg

\* C28: a turn submitted on a session id that was never started comes back
\* to the caller as an error value, never as a raised exception, and the
\* orchestrator accepts the next turn.
C28_UnknownSessionIsAnErrorValue ==
    [][\A arg \in SessionIds \cup {""}, u \in Utterances :
          /\ SubmitTurnStep(arg, u)
          /\ ~busy(is_processing)
          /\ SessionOfTurn(arg) \notin DOMAIN sessions
          => /\ ret'.op = "turn"
             /\ ret'.out.status # "exception"
             /\ ~is_processing']_vars

\* a node without what is fresh in it: its id and the ids of its neighbours
NodeModuloId(node) ==
    [node_type |-> node.node_type, name |-> node.name, value |-> node.value,
     operation_type |-> node.operation_type, cadquery_code |-> node.cadquery_code]

Dependencies(pig) ==
    {<<id, dep>> \in NodeIds(pig) \X NodeIds(pig) : dep \in NodeOf(pig, id).dependencies}

\* what a change of a graph from before to after did, modulo ids: the nodes
\* added in order, the edges added by the names of their ends, and the
\* parameters whose value changed
PIGDiff(before, after) ==
    LET added == SelectSeq(after.nodes, LAMBDA node : node.id \notin NodeIds(before))
    IN [nodes |-> [i \in DOMAIN added |-> NodeModuloId(added[i])],
        edges |-> {<<NodeOf(after, e[1]).name, NodeOf(after, e[2]).name>> :
                      e \in Dependencies(after) \ Dependencies(before)},
        values |-> {[name |-> NodeOf(after, id).name, value |-> NodeOf(after, id).value] :
                      id \in {i \in NodeIds(before) \cap NodeIds(after) :
                                 NodeOf(after, i).value # NodeOf(before, i).value}}]

\* C29: absorbing the plan of the same new-instruction turn a second time
\* changes the graph as the first absorption did, modulo fresh ids: the
\* same nodes and edges added, the same values set.
C29_SamePlanSameDiff ==
    [][\A s \in SessionIds, plan \in Plans, status \in ExecStatuses :
          AbsorbPlanStep(s, plan, status)
              => LET before == get_graph(M, s).g[s]
                     again == update_from_execution_plan(M', s, plan, status).g[s]
                 IN PIGDiff(graphs'[s], again) = PIGDiff(before, graphs'[s])]_vars

----------------------------------------------------------------------------
(* executor.py: what the subprocess does, and what _execute_in_process and *)
(* execute_plan make of it.                                                *)

\* the subprocess prints EXECUTION_SUCCESS, ends without it, or is still
\* running when max_execution_time has passed
SubprocessOutcomes == {"success_marker", "no_marker", "timeout"}

\* _execute_in_process(python_code): the result_data, and whether the
\* process was killed
execute_in_process(outcome) ==
    IF outcome = "success_marker"
    THEN [status |-> "success", error_traceback |-> "", killed |-> FALSE]
    ELSE IF outcome = "no_marker"
    THEN [status |-> "error", error_traceback |-> "output", killed |-> FALSE]
    ELSE [status |-> "error", error_traceback |-> "TimeoutError", killed |-> TRUE]

\* the status of the ExecutionResult execute_plan builds from result_data
execution_status(result_data) ==
    IF result_data.status = "success" THEN "success" ELSE "error"

\* _execute_plan_with_retry after the subprocess of execute_plan ended
ExecutorRunsStep(c, outcome) ==
    ExecutorReturnsStep(c, execution_status(execute_in_process(outcome)))

ExecutorRuns ==
    \E c \in DOMAIN calls, outcome \in SubprocessOutcomes : ExecutorRunsStep(c, outcome)

\* turns whose executor is the subprocess itself
NextExecutor ==
    \/ StartSession
    \/ SubmitTurn
    \/ FastPathReturns
    \/ PlannerReturns
    \/ ExecutorRuns
    \/ CorrectionReturns

SpecExecutor == Init /\ [][NextExecutor]_vars

\* C31: a subprocess that runs past max_execution_time is killed and the
\* ExecutionResult has the status timeout, which is not the status error.
C31_TimeoutIsItsOwnStatus ==
    [][\A c \in DOMAIN calls :
          ExecutorRunsStep(c, "timeout")
              => /\ execute_in_process("timeout").killed
                 /\ execution_status(execute_in_process("timeout")) = "timeout"]_vars

----------------------------------------------------------------------------
(* Checkpoints under everything that can follow them.                      *)

\* PIGManager.update_parameter_value with one new value
UpdateToNine ==
    \E s \in SessionIds, name \in ParameterNames : UpdateParameterValueStep(s, name, IntV(9))

NextSnapshots ==
    \/ UpdateToNine
    \/ AbsorbPlan
    \/ CreateVersionCheckpoint
    \/ RollbackToVersion
    \/ EnableDirectCodeEditing
    \/ LoadPreviousGeneration

SpecSnapshots == Init /\ [][NextSnapshots]_vars

\* C32: a checkpoint is an immutable snapshot: no step changes the parameter
\* values or the operation scripts recorded in a checkpoint entry of the
\* version history.
C32_CheckpointsImmutable ==
    [][\A s \in DOMAIN version_history :
          \A i \in DOMAIN version_history[s] :
              version_history[s][i].type = "checkpoint"
                  => /\ s \in DOMAIN version_history'
                     /\ i \in DOMAIN version_history'[s]
                     /\ version_history'[s][i].type = "checkpoint"
                     /\ version_history'[s][i].data.parameters =
                            version_history[s][i].data.parameters
                     /\ version_history'[s][i].data.operations =
                            version_history[s][i].data.operations]_vars

\* a checkpoint that recorded a parameter whose value in the graph has been
\* updated since
C32_Witness ==
    \E s \in DOMAIN version_history :
        /\ ret.op = "update_parameter" /\ ret.ok
        /\ \E i \in DOMAIN version_history[s] :
              /\ version_history[s][i].type = "checkpoint"
              /\ \E k \in DOMAIN version_history[s][i].data.parameters :
                    LET p == version_history[s][i].data.parameters[k]
                    IN /\ p.id \in NodeIds(graphs[s])
                       /\ NodeOf(graphs[s], p.id).name = p.name
                       /\ NodeOf(graphs[s], p.id).value # p.value

\* the parameters of a graph as name and value, and the scripts of its
\* operations, in insertion order
ParametersOf(pig) ==
    LET ps == SelectSeq(pig.nodes, LAMBDA node : node.node_type = "parameter")
    IN [i \in DOMAIN ps |-> [name |-> ps[i].name, value |-> ps[i].value]]
ScriptsOf(pig) ==
    LET ops == SelectSeq(pig.nodes, LAMBDA node : node.node_type = "operation")
    IN [i \in DOMAIN ops |-> ops[i].cadquery_code]

\* C33: a load of a saved script replaces the graph of the session by the
\* parameters and the operations of the script, no node of the previous
\* graph remaining, and appends exactly one load_previous entry to the
\* version history; when no script is found the load fails and leaves the
\* graph and the history as they were.
C33_LoadReplacesGraph ==
    [][\A s \in SessionIds, file \in Files :
          LoadPreviousGenerationStep(s, file)
              => IF file.found
                 THEN /\ ret'.ok
                      /\ NodeIds(graphs'[s]) \cap NodeIds(GraphOf(s)) = {}
                      /\ ParametersOf(graphs'[s]) = file.parameters
                      /\ ScriptsOf(graphs'[s]) =
                             (IF IsBlank(file.cadquery_code) THEN <<>>
                              ELSE <<file.cadquery_code>>)
                      /\ Len(version_history'[s]) = Len(HistoryOf(s)) + 1
                      /\ SubSeq(version_history'[s], 1, Len(HistoryOf(s))) = HistoryOf(s)
                      /\ version_history'[s][Len(version_history'[s])].type = "load_previous"
                 ELSE /\ ~ret'.ok
                      /\ graphs' = graphs
                      /\ version_history' = version_history]_vars

\* a load that replaced a graph which held nodes, as the checkpoint taken
\* before it tells
C33_Witness ==
    /\ ret.op = "load_previous" /\ ret.ok
    /\ \E s \in DOMAIN version_history :
          /\ Len(version_history[s]) = 2
          /\ version_history[s][1].type = "checkpoint"
          /\ version_history[s][1].data.parameters # <<>>
          /\ version_history[s][2].type = "load_previous"
          /\ s = ret.sid

\* C34: when the self-correction loop ends in success after one correction
\* or more, the plan merged into the graph and named in the turn's response
\* is the corrected plan whose execution succeeded, not the plan of the
\* first answer.
C34_CorrectedPlanIsMerged ==
    [][\A c \in DOMAIN calls :
          ExecutorReturnsStep(c, "success") /\ calls[c].corrections > 0
              => /\ ret'.op = "turn"
                 /\ ret'.out.status = "executed"
                 /\ ret'.out.plan = calls[c].execution_plan.id
                 /\ graphs'[calls[c].sid] =
                        update_from_execution_plan(M, calls[c].sid, calls[c].execution_plan,
                                                   NoResult).g[calls[c].sid]]_vars

\* the values the committed model of session s was built with for the
\* parameter called name
CommittedValues(s, name) ==
    IF s \in DOMAIN model_states
    THEN {model_states[s].parameters[i].value :
             i \in {j \in DOMAIN model_states[s].parameters :
                       model_states[s].parameters[j].name = name}}
    ELSE {}

\* C35: when the re-execution after a fast-path write does not succeed, the
\* parameter is back at its previous value before the turn goes on to the
\* planner: the graph does not keep a value of the parameter other than the
\* one the committed model was built with.
C35_FailedFastPathRestores ==
    [][\A c \in DOMAIN calls :
          FastPathReturnsStep(c, "error") /\ CommittedValues(calls[c].sid, calls[c].param_name) # {}
              => LET pig == graphs'[calls[c].sid]
                     param_id == find_parameter_by_name(pig, calls[c].param_name)
                 IN /\ param_id # NoId
                    /\ NodeOf(pig, param_id).value
                           \in CommittedValues(calls[c].sid, calls[c].param_name)]_vars

----------------------------------------------------------------------------
(* Turns together with the edit handlers that regenerate the model.        *)

NextCommit ==
    \/ StartSession
    \/ SubmitTurn
    \/ FastPathReturns
    \/ PlannerReturns
    \/ ExecutorReturns
    \/ CorrectionReturns
    \/ CreateCheckpoint
    \/ Rollback
    \/ DirectEdit
    \/ BatchUpdate

SpecCommit == Init /\ [][NextCommit]_vars

\* the statuses of an execution that did not succeed
FailedStatuses == ExecStatuses \ {"success"}

\* C36: the committed model of a session changes only when an execution
\* returns success: a turn, a rollback, a direct edit or a batch update
\* whose execution fails leaves every committed model as it was.
C36_ModelChangesOnlyOnSuccess ==
    [][\A status \in FailedStatuses :
          /\ \A c \in DOMAIN calls :
                 FastPathReturnsStep(c, status) \/ ExecutorReturnsStep(c, status)
                     => model_states' = model_states
          /\ \A s \in SessionIds :
                 /\ \A checkpoint_id \in 1..clock :
                        RollbackStep(s, checkpoint_id, status) => model_states' = model_states
                 /\ \A parameter_updates \in UpdateChoices :
                        BatchUpdateStep(s, parameter_updates, status)
                            => model_states' = model_states
                 /\ \A new_code \in Scripts, operation_id \in NodeIds(GraphOf(s)) \cup {nextId} :
                        \A names \in Orders(detect_parameters_in_code(new_code)) :
                            DirectEditStep(s, operation_id, new_code, names, status)
                                => model_states' = model_states]_vars

\* a turn that ended with an execution error on a session whose committed
\* model an earlier execution had built
C36_Witness ==
    /\ ret.op = "turn" /\ ret.out.status = "execution_error"
    /\ ret.sid \in DOMAIN model_states
    /\ model_states[ret.sid] # NoModel

-----------------------------------------------------------------------------
(* The busy flag.  Every await of process_user_input ends: the language     *)
(* model client and the executor's subprocess answer or time out, and the   *)
(* event loop resumes the suspended call.  Weak fairness of the four        *)
(* resumptions states that.                                                 *)

NextLive ==
    \/ StartSession
    \/ SubmitTurn
    \/ FastPathReturns
    \/ PlannerReturns
    \/ ExecutorReturns
    \/ CorrectionReturns

SpecLive ==
    /\ Init
    /\ [][NextLive]_vars
    /\ WF_vars(FastPathReturns)
    /\ WF_vars(PlannerReturns)
    /\ WF_vars(ExecutorReturns)
    /\ WF_vars(CorrectionReturns)

\* C37: a turn that was accepted (the flag is set) eventually returns with the
\* flag cleared, whichever way it ends; the flag is set only while a call is
\* suspended, so a turn submitted when no call is in flight is never
\* answered busy.
C37_FlagEventuallyCleared ==
    /\ is_processing ~> ~is_processing
    /\ [](calls = << >> => ~is_processing)
    /\ [][\A arg \in SessionIds \cup {""}, u \in Utterances :
             (SubmitTurnStep(arg, u) /\ calls = << >>)
             => (ret'.op = "turn" => ret'.out.status # "busy")]_vars

\* the second turn was accepted after the first one had returned
C37_Witness ==
    /\ ret.op = "await"
    /\ ret.out.call = 2
    /\ DOMAIN calls = {2}
    /\ is_processing

-----------------------------------------------------------------------------
(* The last generated script.  get_session_state answers it as             *)
(* last_execution_code; the committed model is written here as the script  *)
(* whose execution produced it.                                             *)

\* getattr(self, '_session_codes', {}).get(session_id)
last_execution_code(s) == IF s \in DOMAIN session_codes THEN session_codes[s] ELSE NoModel

\* C38: whenever a step changes the committed model of a session, the
\* session's last generated script is afterwards the script whose execution
\* produced that model, whichever path made the change.
C38_LastScriptProducedModel ==
    [][\A s \in DOMAIN model_states :
          model_states'[s] # model_states[s]
          => last_execution_code(s)' = model_states'[s]]_vars

-----------------------------------------------------------------------------
(* The fallback of the salvage, seen from the turn.                         *)

\* no strategy of _clean_json_response finds valid JSON in the outcome's text
nothing_salvaged(outcome) ==
    /\ outcome.kind = "text"
    /\ clean_json_response(outcome.response_text) = error_json

\* what generate_plan answers came from a text without JSON
answer_is_fallback(first, correction) ==
    \/ nothing_salvaged(first)
    \/ /\ first.kind # "raised"
       /\ needs_correction(parse_llm_response(first))
       /\ nothing_salvaged(correction)

\* C39: when no salvage strategy yields valid JSON the planner answers the
\* synthesised error response that asks the user to rephrase, and the turn
\* ends with that reply: the call is never handed to the executor and the
\* graphs stay as they were.
C39_FallbackEndsTurn ==
    [][\A c \in DOMAIN calls, first \in LLMOutcomes, correction \in LLMOutcomes :
          GeneratePlanStep(c, first, correction) /\ answer_is_fallback(first, correction)
              => /\ generate_plan(first, correction).intention_type = "error"
                 /\ generate_plan(first, correction).requires_clarification
                 /\ generate_plan(first, correction).clarification_questions # <<>>
                 /\ generate_plan(first, correction).execution_plan = NoPlan
                 /\ c \notin DOMAIN calls'
                 /\ ret'.op = "turn"
                 /\ ret'.out.status = "clarification"
                 /\ ret'.out.clarification_questions = fallback_response.clarification_questions
                 /\ graphs' = graphs
                 /\ version_history' = version_history
                 /\ model_states' = model_states]_vars

\* a turn ended with the question of the fallback
C39_Witness ==
    /\ ret.op = "turn"
    /\ ret.out.status = "clarification"
    /\ ret.out.clarification_questions = fallback_response.clarification_questions

=============================================================================
